---- MODULE Spec2Model ----
(***************************************************************************)
(* Assessment progression engine of the Test_School platform               *)
(* (services/assessment.service.ts): the one-question-at-a-time test       *)
(* session, its scoring and the score-gated progression policy, over the   *)
(* Test, TestResponse, User, Question and Certificate collections.         *)
(***************************************************************************)
EXTENDS Integers, Sequences, FiniteSets, TLC

(* ---------------------------- bounds ----------------------------------- *)

\* Largest number of Test documents the model lets startAssessment create.
MaxTests == 3

\* Largest number of Test documents in the interleaved specification.
MaxRaceTests == 2

\* Largest question pool of the single-session specification.
MaxQuestions == 3

\* Largest question pool of the interleaved single-session specification.
MaxRaceQuestions == 1

\* Size of the question bank of the administration specification.
MaxAdminQuestions == 2

\* The student of the sequential specifications.
Users == {"u1"}

\* The students of the interleaved specification.
RaceUsers == {"u1", "u2"}

\* The option indexes a client submits (a subset of the valid range 0..3).
SelectedOptions == {0, 2}

\* Concurrent request handlers of the interleaved specification.
Workers == {"w1", "w2"}

(* ----------------------- types and constants --------------------------- *)

levelOrder == <<"A1", "A2", "B1", "B2", "C1", "C2">>

\* levelAchieved: null / highestLevelAchieved: undefined
NoLevel == "none"

\* a Number field that is not set (score, correctAnswers, selectedOptionIndex)
Unset == -1

TestSteps == {1, 2, 3}

OK == 200
BAD_REQUEST == 400
FORBIDDEN == 403
NOT_FOUND == 404
CONFLICT == 409
INTERNAL_SERVER_ERROR == 500

\* levelOrder.indexOf(level), 0-based; -1 when absent
IndexOfLevel(level) ==
  IF \E i \in 1..Len(levelOrder) : levelOrder[i] = level
  THEN (CHOOSE i \in 1..Len(levelOrder) : levelOrder[i] = level) - 1
  ELSE -1

getStepLevels(step) ==
  CASE step = 1 -> <<"A1", "A2">>
    [] step = 2 -> <<"B1", "B2">>
    [] step = 3 -> <<"C1", "C2">>

SeqRange(s) == {s[i] : i \in 1..Len(s)}

\* array[i] of a JavaScript array, 0-based; 0 stands for undefined
ElementAt(array, i) == IF i \in 0..(Len(array) - 1) THEN array[i + 1] ELSE 0

\* The question bank the system starts with: one document per
\* (competencyId, level), as the unique index demands.  Ids are the positions.
QuestionBank ==
  << [competencyId |-> 1, level |-> "A2", correctOptionIndex |-> 0, isActive |-> TRUE],
     [competencyId |-> 1, level |-> "B1", correctOptionIndex |-> 2, isActive |-> TRUE],
     [competencyId |-> 2, level |-> "C1", correctOptionIndex |-> 2, isActive |-> TRUE],
     [competencyId |-> 1, level |-> "C2", correctOptionIndex |-> 0, isActive |-> TRUE] >>

\* The bank of the single-session specification: n step-1 questions.
SessionBank(n) ==
  [ q \in 1..n |->
      [ competencyId |-> (q + 1) \div 2,
        level |-> IF q % 2 = 1 THEN "A1" ELSE "A2",
        correctOptionIndex |-> IF q % 2 = 1 THEN 2 ELSE 0,
        isActive |-> TRUE ] ]

(* ------------------------------ state ---------------------------------- *)

VARIABLES
  users,         \* User collection: userId -> [assessmentStatus, highestLevelAchieved]
  questions,     \* Question collection: id -> document
  tests,         \* Test collection: sequence of documents, _id = position
  responses,     \* TestResponse collection: per test, the rows by insertion order
  certificates,  \* Certificate collection: sequence of documents
  result,        \* the ApiResponse the last finished call returned
  pc,            \* interleaved specification: where each handler stands
  loc,           \* interleaved specification: the handler's local variables
  pure,          \* policy specification: a helper's arguments and its value
  mail,          \* certificate emails handed to setImmediate, and how they ended
  now,           \* Date.now(), in seconds
  reqUser        \* req.user.id: the student the request in hand is authenticated as

db == <<users, questions, tests, responses, certificates>>
vars == <<users, questions, tests, responses, certificates, result, pc, loc, pure, mail, now, reqUser>>

TestIds == 1..Len(tests)

NoResult == [op |-> "none", success |-> FALSE, code |-> 0, testId |-> 0]

\* createSuccessResponse(message, data): success true, statusCode 200
createSuccessResponse(op, testId) ==
  [op |-> op, success |-> TRUE, code |-> OK, testId |-> testId]

\* the envelope of a failed call that claims success
ErrorEnvelopeSucceeding(op, statusCode) ==
  [op |-> op, success |-> TRUE, code |-> statusCode, testId |-> 0]

\* serviceWrapper's catch: success false and the statusCode of the ApiError,
\* 500 for any other error
ErrorEnvelope(op, statusCode) ==
  [op |-> op, success |-> FALSE, code |-> statusCode, testId |-> 0]

\* the ApiResponse serviceWrapper returns for a handler that ended with code
Response(op, code, testId) ==
  IF code = OK THEN createSuccessResponse(op, testId) ELSE ErrorEnvelope(op, code)

IdleLoc == [userId |-> "u1", step |-> 1, order |-> <<>>, testId |-> 0]

NoPure == [fn |-> "none"]

(* ------------------------- pure helpers -------------------------------- *)

\* Math.ceil(correct / total * 100)
MathCeilPercent(correct, total) == (100 * correct + total - 1) \div total

\* Math.round(correct / total * 100) for 0 <= correct <= total, total > 0
MathRoundPercent(correct, total) == (200 * correct + total) \div (2 * total)

\* calculateProgression with the step-1 block boundary at score <= 25
calculateProgressionInclusive(step, score) ==
  CASE step = 1 ->
         IF score <= 25 THEN [levelAchieved |-> NoLevel, canProceedToNextStep |-> FALSE, blocksRetake |-> TRUE]
         ELSE IF score < 50 THEN [levelAchieved |-> "A1", canProceedToNextStep |-> FALSE, blocksRetake |-> FALSE]
         ELSE IF score < 75 THEN [levelAchieved |-> "A2", canProceedToNextStep |-> FALSE, blocksRetake |-> FALSE]
         ELSE [levelAchieved |-> "A2", canProceedToNextStep |-> TRUE, blocksRetake |-> FALSE]
    [] step = 2 ->
         IF score < 25 THEN [levelAchieved |-> "A2", canProceedToNextStep |-> FALSE, blocksRetake |-> FALSE]
         ELSE IF score < 50 THEN [levelAchieved |-> "B1", canProceedToNextStep |-> FALSE, blocksRetake |-> FALSE]
         ELSE IF score < 75 THEN [levelAchieved |-> "B2", canProceedToNextStep |-> FALSE, blocksRetake |-> FALSE]
         ELSE [levelAchieved |-> "B2", canProceedToNextStep |-> TRUE, blocksRetake |-> FALSE]
    [] step = 3 ->
         IF score < 25 THEN [levelAchieved |-> "B2", canProceedToNextStep |-> FALSE, blocksRetake |-> FALSE]
         ELSE IF score < 50 THEN [levelAchieved |-> "C1", canProceedToNextStep |-> FALSE, blocksRetake |-> FALSE]
         ELSE [levelAchieved |-> "C2", canProceedToNextStep |-> FALSE, blocksRetake |-> FALSE]

calculateProgression(step, score) ==
  CASE step = 1 ->
         IF score < 25 THEN [levelAchieved |-> NoLevel, canProceedToNextStep |-> FALSE, blocksRetake |-> TRUE]
         ELSE IF score < 50 THEN [levelAchieved |-> "A1", canProceedToNextStep |-> FALSE, blocksRetake |-> FALSE]
         ELSE IF score < 75 THEN [levelAchieved |-> "A2", canProceedToNextStep |-> FALSE, blocksRetake |-> FALSE]
         ELSE [levelAchieved |-> "A2", canProceedToNextStep |-> TRUE, blocksRetake |-> FALSE]
    [] step = 2 ->
         IF score < 25 THEN [levelAchieved |-> "A2", canProceedToNextStep |-> FALSE, blocksRetake |-> FALSE]
         ELSE IF score < 50 THEN [levelAchieved |-> "B1", canProceedToNextStep |-> FALSE, blocksRetake |-> FALSE]
         ELSE IF score < 75 THEN [levelAchieved |-> "B2", canProceedToNextStep |-> FALSE, blocksRetake |-> FALSE]
         ELSE [levelAchieved |-> "B2", canProceedToNextStep |-> TRUE, blocksRetake |-> FALSE]
    [] step = 3 ->
         IF score < 25 THEN [levelAchieved |-> "B2", canProceedToNextStep |-> FALSE, blocksRetake |-> FALSE]
         ELSE IF score < 50 THEN [levelAchieved |-> "C1", canProceedToNextStep |-> FALSE, blocksRetake |-> FALSE]
         ELSE [levelAchieved |-> "C2", canProceedToNextStep |-> FALSE, blocksRetake |-> FALSE]

\* shouldUpdateUserLevel that accepts every new level
shouldUpdateUserLevelAlways(currentLevel, newLevel) == TRUE

shouldUpdateUserLevel(currentLevel, newLevel) ==
  IF currentLevel = NoLevel THEN TRUE
  ELSE IndexOfLevel(newLevel) > IndexOfLevel(currentLevel)

(* ------------------------- collection queries -------------------------- *)

\* .sort({ competencyId: 1, level: 1 }); insertion order breaks ties
SortsBefore(a, b) ==
  \/ questions[a].competencyId < questions[b].competencyId
  \/ /\ questions[a].competencyId = questions[b].competencyId
     /\ \/ IndexOfLevel(questions[a].level) < IndexOfLevel(questions[b].level)
        \/ /\ questions[a].level = questions[b].level
           /\ a < b

RECURSIVE SortQuestions(_)
SortQuestions(S) ==
  IF S = {} THEN <<>>
  ELSE LET first == CHOOSE a \in S : \A b \in S \ {a} : SortsBefore(a, b)
       IN <<first>> \o SortQuestions(S \ {first})

\* FindStepQuestions without the isActive filter
FindStepQuestionsAnyActive(step) ==
  SortQuestions({q \in DOMAIN questions :
                   questions[q].level \in SeqRange(getStepLevels(step))})

\* Question.find({ level: { $in: stepLevels }, isActive: true }).sort(...)
\* mapped to the ids: questionOrder
FindStepQuestions(step) ==
  SortQuestions({q \in DOMAIN questions :
                   /\ questions[q].isActive
                   /\ questions[q].level \in SeqRange(getStepLevels(step))})

MinOf(S) == CHOOSE x \in S : \A y \in S : x <= y

\* FindActiveTest querying a status no test has
FindActiveTestWrongStatus(userId, step) ==
  LET found == {t \in TestIds : /\ tests[t].userId = userId
                                /\ tests[t].step = step
                                /\ tests[t].status = "active"}
  IN IF found = {} THEN 0 ELSE MinOf(found)

\* Test.findOne({ userId, step, status: "in_progress" }): its _id, 0 for null
FindActiveTest(userId, step) ==
  LET found == {t \in TestIds : /\ tests[t].userId = userId
                                /\ tests[t].step = step
                                /\ tests[t].status = "in_progress"}
  IN IF found = {} THEN 0 ELSE MinOf(found)

\* HasPassedStep without the canProceedToNextStep filter
HasCompletedStep(userId, step) ==
  \E t \in TestIds : /\ tests[t].userId = userId
                     /\ tests[t].step = step
                     /\ tests[t].status = "completed"

\* Test.findOne({ userId, step: previousStep, status: "completed",
\*                canProceedToNextStep: true }) found a document
HasPassedStep(userId, step) ==
  \E t \in TestIds : /\ tests[t].userId = userId
                     /\ tests[t].step = step
                     /\ tests[t].status = "completed"
                     /\ tests[t].canProceedToNextStep

\* TestResponse.findOne({ testId, questionId }): its position, 0 for null
FindResponseByQuestion(testId, questionId) ==
  LET found == {k \in 1..Len(responses[testId]) :
                  responses[testId][k].questionId = questionId}
  IN IF found = {} THEN 0 ELSE MinOf(found)

\* TestResponse.findOne({ testId, questionOrder }): its position, 0 for null
FindResponseByOrder(testId, questionOrder) ==
  LET found == {k \in 1..Len(responses[testId]) :
                  responses[testId][k].questionOrder = questionOrder}
  IN IF found = {} THEN 0 ELSE MinOf(found)

\* selectedOptionIndex !== undefined || isSkipped
IsAnsweredOrSkipped(r) == r.selectedOptionIndex # Unset \/ r.isSkipped

(* --------------------------- eligibility ------------------------------- *)

\* checkUserEligibility without the assessmentStatus check
checkUserEligibilityNoBlock(userId, step) ==
  IF userId \notin DOMAIN users THEN NOT_FOUND
  ELSE IF step > 1 /\ ~HasPassedStep(userId, step - 1) THEN FORBIDDEN
  ELSE OK

\* the statusCode of checkUserEligibility's ApiResponse
checkUserEligibility(userId, step) ==
  IF userId \notin DOMAIN users THEN NOT_FOUND
  ELSE IF users[userId].assessmentStatus = "blocked_step1_failure" THEN FORBIDDEN
  ELSE IF step > 1 /\ ~HasPassedStep(userId, step - 1) THEN FORBIDDEN
  ELSE OK

(* ------------------------- startAssessment ----------------------------- *)

NewTest(userId, step, questionOrder) ==
  [ userId |-> userId,
    step |-> step,
    levelsTested |-> getStepLevels(step),
    totalQuestions |-> Len(questionOrder),
    status |-> "in_progress",
    questionOrder |-> questionOrder,
    currentQuestionIndex |-> 0,
    currentQuestionId |-> ElementAt(questionOrder, 0),
    questionsAnswered |-> 0,
    timeLimit |-> Len(questionOrder) * 60,
    score |-> Unset,
    correctAnswers |-> Unset,
    levelAchieved |-> NoLevel,
    canProceedToNextStep |-> FALSE,
    blocksRetake |-> FALSE,
    completedAt |-> FALSE,
    startedAt |-> now ]

NewResponses(questionOrder) ==
  [ k \in 1..Len(questionOrder) |->
      [ questionId |-> questionOrder[k],
        questionOrder |-> k - 1,
        selectedOptionIndex |-> Unset,
        isCorrect |-> "undefined",
        isSkipped |-> FALSE ] ]

startAssessment(userId, step) ==
  LET activeTest == FindActiveTest(userId, step)
      questionOrder == FindStepQuestions(step)
  IN /\ UNCHANGED <<users, questions, certificates, pc, loc, pure, mail, now, reqUser>>
     /\ IF checkUserEligibility(userId, step) # OK
        THEN /\ result' = Response("start", FORBIDDEN, 0)
             /\ UNCHANGED <<tests, responses>>
        ELSE IF activeTest # 0
        THEN /\ result' = Response("start", OK, activeTest)
             /\ UNCHANGED <<tests, responses>>
        ELSE IF questionOrder = <<>>
        THEN /\ result' = Response("start", CONFLICT, 0)
             /\ UNCHANGED <<tests, responses>>
        ELSE /\ Len(tests) < MaxTests
             /\ tests' = Append(tests, NewTest(userId, step, questionOrder))
             /\ responses' = Append(responses, NewResponses(questionOrder))
             /\ result' = Response("start", OK, Len(tests) + 1)

(* ------------------------- getCurrentQuestion -------------------------- *)

\* the statusCode getCurrentQuestion ends with in the current state (every
\* competency a question refers to exists and has a name)
getCurrentQuestionCode(testId) ==
  IF testId \notin TestIds THEN NOT_FOUND
  ELSE IF tests[testId].status # "in_progress" THEN BAD_REQUEST
  ELSE IF tests[testId].currentQuestionId \notin DOMAIN questions THEN NOT_FOUND
  ELSE OK

\* currentResponse && (selectedOptionIndex !== undefined || isSkipped)
isCurrentQuestionAnswered(testId) ==
  LET k == FindResponseByOrder(testId, tests[testId].currentQuestionIndex)
  IN k # 0 /\ IsAnsweredOrSkipped(responses[testId][k])

\* Navigation whose canGoNext ignores the last question
NavigationNextUnbounded(testId) ==
  [ canGoNext |-> isCurrentQuestionAnswered(testId),
    canGoPrevious |-> tests[testId].currentQuestionIndex > 0,
    canSkip |-> ~isCurrentQuestionAnswered(testId),
    canSubmitTest |-> tests[testId].questionsAnswered > 0 ]

\* the navigation object of the CurrentQuestionResponse
Navigation(testId) ==
  [ canGoNext |-> /\ isCurrentQuestionAnswered(testId)
                  /\ tests[testId].currentQuestionIndex
                        < tests[testId].totalQuestions - 1,
    canGoPrevious |-> tests[testId].currentQuestionIndex > 0,
    canSkip |-> ~isCurrentQuestionAnswered(testId),
    canSubmitTest |-> tests[testId].questionsAnswered > 0 ]

\* Math.round((questionsAnswered / totalQuestions) * 100)
ProgressPercentage(test) == MathRoundPercent(test.questionsAnswered, test.totalQuestions)

\* TimeRemaining without the clamp at 0
TimeRemainingSigned(test) == test.timeLimit - (now - test.startedAt)

\* Math.max(0, timeLimit - Math.floor((Date.now() - startedAt) / 1000))
TimeRemaining(test) ==
  IF test.timeLimit - (now - test.startedAt) > 0
  THEN test.timeLimit - (now - test.startedAt)
  ELSE 0

\* the testProgress object of the CurrentQuestionResponse
TestProgress(testId) ==
  [ questionsAnswered |-> tests[testId].questionsAnswered,
    progressPercentage |-> ProgressPercentage(tests[testId]),
    timeRemaining |-> TimeRemaining(tests[testId]) ]

getCurrentQuestion(testId) ==
  /\ result' = IF getCurrentQuestionCode(testId) = OK
               THEN [op |-> "current", success |-> TRUE, code |-> OK, testId |-> 0,
                     testProgress |-> TestProgress(testId),
                     navigation |-> Navigation(testId)]
               ELSE Response("current", getCurrentQuestionCode(testId), 0)
  /\ UNCHANGED <<db, pc, loc, pure, mail, now, reqUser>>

(* --------------------------- submitAnswer ------------------------------ *)

\* the response row once the answer is recorded
AnsweredResponse(r, selectedOptionIndex, correctOptionIndex) ==
  [r EXCEPT !.selectedOptionIndex = selectedOptionIndex,
            !.isCorrect = IF selectedOptionIndex = correctOptionIndex
                          THEN "true" ELSE "false",
            !.isSkipped = FALSE]

\* AdvanceCursor that wraps to the first question after the last
AdvanceCursorWrapping(test) ==
  LET next == (test.currentQuestionIndex + 1) % test.totalQuestions
  IN [test EXCEPT !.currentQuestionIndex = next,
                  !.currentQuestionId = ElementAt(test.questionOrder, next)]

\* AdvanceCursor that leaves currentQuestionId behind
AdvanceCursorStaleId(test) ==
  IF test.currentQuestionIndex < test.totalQuestions - 1
  THEN [test EXCEPT !.currentQuestionIndex = test.currentQuestionIndex + 1]
  ELSE test

\* "Auto-move to next question if not at end"
AdvanceCursor(test) ==
  IF test.currentQuestionIndex < test.totalQuestions - 1
  THEN [test EXCEPT !.currentQuestionIndex = test.currentQuestionIndex + 1,
                    !.currentQuestionId =
                       ElementAt(test.questionOrder, test.currentQuestionIndex + 1)]
  ELSE test

\* the test document submitAnswer saves
TestAfterAnswer(test) ==
  AdvanceCursor([test EXCEPT !.questionsAnswered = test.questionsAnswered + 1])

\* submitAnswerCode without the "Question already answered" check
submitAnswerCodeNoAnsweredCheck(testId, questionId) ==
  IF testId \notin TestIds \/ tests[testId].status # "in_progress" THEN BAD_REQUEST
  ELSE IF questionId \notin DOMAIN questions THEN NOT_FOUND
  ELSE IF FindResponseByQuestion(testId, questionId) = 0 THEN NOT_FOUND
  ELSE OK

\* the statusCode submitAnswer ends with in the current state
submitAnswerCode(testId, questionId) ==
  IF testId \notin TestIds \/ tests[testId].status # "in_progress" THEN BAD_REQUEST
  ELSE IF questionId \notin DOMAIN questions THEN NOT_FOUND
  ELSE IF FindResponseByQuestion(testId, questionId) = 0 THEN NOT_FOUND
  ELSE IF responses[testId][FindResponseByQuestion(testId, questionId)]
            .selectedOptionIndex # Unset THEN BAD_REQUEST
  ELSE OK

submitAnswer(testId, questionId, selectedOptionIndex) ==
  LET code == submitAnswerCode(testId, questionId)
      k == FindResponseByQuestion(testId, questionId)
  IN /\ UNCHANGED <<users, questions, certificates, pc, loc, pure, mail, now, reqUser>>
     /\ result' = Response("submit", code, 0)
     /\ IF code # OK
        THEN UNCHANGED <<tests, responses>>
        ELSE /\ responses' = [responses EXCEPT ![testId][k] =
                   AnsweredResponse(@, selectedOptionIndex,
                                    questions[questionId].correctOptionIndex)]
             /\ tests' = [tests EXCEPT ![testId] = TestAfterAnswer(@)]

(* --------------------------- skipQuestion ------------------------------ *)

\* the response row once it is marked as skipped
SkippedResponse(r) == [r EXCEPT !.isSkipped = TRUE]

\* the test document skipQuestion saves
TestAfterSkip(test) == AdvanceCursor(test)

\* skipQuestionCode that refuses a skipped response only
skipQuestionCodeSkippedOnly(testId) ==
  IF testId \notin TestIds \/ tests[testId].status # "in_progress" THEN BAD_REQUEST
  ELSE IF FindResponseByOrder(testId, tests[testId].currentQuestionIndex) = 0
  THEN NOT_FOUND
  ELSE IF responses[testId][FindResponseByOrder(testId,
                              tests[testId].currentQuestionIndex)].isSkipped
  THEN BAD_REQUEST
  ELSE OK

\* the statusCode skipQuestion ends with in the current state
skipQuestionCode(testId) ==
  IF testId \notin TestIds \/ tests[testId].status # "in_progress" THEN BAD_REQUEST
  ELSE IF FindResponseByOrder(testId, tests[testId].currentQuestionIndex) = 0
  THEN NOT_FOUND
  ELSE IF IsAnsweredOrSkipped(
            responses[testId][FindResponseByOrder(testId,
                                tests[testId].currentQuestionIndex)])
  THEN BAD_REQUEST
  ELSE OK

skipQuestion(testId) ==
  LET code == skipQuestionCode(testId)
      k == FindResponseByOrder(testId, tests[testId].currentQuestionIndex)
  IN /\ UNCHANGED <<users, questions, certificates, pc, loc, pure, mail, now, reqUser>>
     /\ result' = Response("skip", code, 0)
     /\ IF code # OK
        THEN UNCHANGED <<tests, responses>>
        ELSE /\ responses' = [responses EXCEPT ![testId][k] = SkippedResponse(@)]
             /\ tests' = [tests EXCEPT ![testId] = TestAfterSkip(@)]

(* ------------------------- navigateQuestion ---------------------------- *)

Directions == {"next", "previous"}

\* NavigateTarget without the upper bound on "next"
NavigateTargetNoUpperBound(test, direction) ==
  IF direction = "next"
  THEN test.currentQuestionIndex + 1
  ELSE IF direction = "previous" /\ test.currentQuestionIndex > 0
  THEN test.currentQuestionIndex - 1
  ELSE -1

\* newIndex, or -1 where the code throws "Cannot navigate"
NavigateTarget(test, direction) ==
  IF direction = "next" /\ test.currentQuestionIndex < test.totalQuestions - 1
  THEN test.currentQuestionIndex + 1
  ELSE IF direction = "previous" /\ test.currentQuestionIndex > 0
  THEN test.currentQuestionIndex - 1
  ELSE -1

\* NavigatedTest that counts the move as an answered question
NavigatedTestCounting(test, newIndex) ==
  [test EXCEPT !.currentQuestionIndex = newIndex,
               !.currentQuestionId = ElementAt(test.questionOrder, newIndex),
               !.questionsAnswered = test.questionsAnswered + 1]

\* the test document navigateQuestion saves
NavigatedTest(test, newIndex) ==
  [test EXCEPT !.currentQuestionIndex = newIndex,
               !.currentQuestionId = ElementAt(test.questionOrder, newIndex)]

\* navigateQuestionCode without the "Must submit answer or skip" check
navigateQuestionCodeNoResolvedCheck(testId, direction) ==
  IF testId \notin TestIds \/ tests[testId].status # "in_progress" THEN BAD_REQUEST
  ELSE IF NavigateTarget(tests[testId], direction) = -1 THEN BAD_REQUEST
  ELSE OK

\* navigateQuestionCode without the status check
navigateQuestionCodeAnyStatus(testId, direction) ==
  IF testId \notin TestIds THEN BAD_REQUEST
  ELSE IF /\ direction = "next"
          /\ LET k == FindResponseByOrder(testId, tests[testId].currentQuestionIndex)
             IN k = 0 \/ ~IsAnsweredOrSkipped(responses[testId][k])
  THEN BAD_REQUEST
  ELSE IF NavigateTarget(tests[testId], direction) = -1 THEN BAD_REQUEST
  ELSE OK

\* the statusCode navigateQuestion ends with in the current state
navigateQuestionCode(testId, direction) ==
  IF testId \notin TestIds \/ tests[testId].status # "in_progress" THEN BAD_REQUEST
  ELSE IF /\ direction = "next"
          /\ LET k == FindResponseByOrder(testId, tests[testId].currentQuestionIndex)
             IN k = 0 \/ ~IsAnsweredOrSkipped(responses[testId][k])
  THEN BAD_REQUEST
  ELSE IF NavigateTarget(tests[testId], direction) = -1 THEN BAD_REQUEST
  ELSE OK

navigateQuestion(testId, direction) ==
  LET code == navigateQuestionCode(testId, direction)
      newIndex == NavigateTarget(tests[testId], direction)
  IN /\ UNCHANGED <<users, questions, responses, certificates, pc, loc, pure, mail, now, reqUser>>
     /\ result' = Response("navigate", code, 0)
     /\ IF code # OK
        THEN UNCHANGED tests
        ELSE tests' = [tests EXCEPT ![testId] = NavigatedTest(@, newIndex)]

(* ------------------------ completeAssessment --------------------------- *)

\* responses.filter((r) => r.isCorrect).length
CountCorrect(rs) == Cardinality({k \in 1..Len(rs) : rs[k].isCorrect = "true"})

\* ComputeScore over the answered rows instead of all rows
ComputeScoreOverAnswered(rs) ==
  LET answered == Cardinality({k \in 1..Len(rs) : rs[k].selectedOptionIndex # Unset})
  IN IF answered = 0 THEN 0 ELSE MathRoundPercent(CountCorrect(rs), answered)

\* the score completeAssessment stores for these response rows
ComputeScore(rs) == MathRoundPercent(CountCorrect(rs), Len(rs))

\* CompletedTest storing a failed status for a blocking result
CompletedTestFailing(test, correctAnswers, score, progression) ==
  [test EXCEPT !.status = IF progression.blocksRetake THEN "failed" ELSE "completed",
               !.completedAt = TRUE,
               !.score = score,
               !.correctAnswers = correctAnswers,
               !.levelAchieved = IF progression.levelAchieved # NoLevel
                                 THEN progression.levelAchieved ELSE @,
               !.canProceedToNextStep = progression.canProceedToNextStep,
               !.blocksRetake = progression.blocksRetake]

\* the test document completeAssessment saves
CompletedTest(test, correctAnswers, score, progression) ==
  [test EXCEPT !.status = "completed",
               !.completedAt = TRUE,
               !.score = score,
               !.correctAnswers = correctAnswers,
               !.levelAchieved = IF progression.levelAchieved # NoLevel
                                 THEN progression.levelAchieved ELSE @,
               !.canProceedToNextStep = progression.canProceedToNextStep,
               !.blocksRetake = progression.blocksRetake]

\* UpdatedUser that writes the status on every completion
UpdatedUserResettingStatus(user, progression) ==
  [user EXCEPT
     !.assessmentStatus = IF progression.blocksRetake
                          THEN "blocked_step1_failure" ELSE "eligible",
     !.highestLevelAchieved =
        IF /\ progression.levelAchieved # NoLevel
           /\ shouldUpdateUserLevel(user.highestLevelAchieved,
                                    progression.levelAchieved)
        THEN progression.levelAchieved ELSE @]

\* UpdatedUser that leaves highestLevelAchieved alone
UpdatedUserKeepingLevel(user, progression) ==
  [user EXCEPT
     !.assessmentStatus = IF progression.blocksRetake
                          THEN "blocked_step1_failure" ELSE @]

\* the user document completeAssessment saves
UpdatedUser(user, progression) ==
  [user EXCEPT
     !.assessmentStatus = IF progression.blocksRetake
                          THEN "blocked_step1_failure" ELSE @,
     !.highestLevelAchieved =
        IF /\ progression.levelAchieved # NoLevel
           /\ shouldUpdateUserLevel(user.highestLevelAchieved,
                                    progression.levelAchieved)
        THEN progression.levelAchieved ELSE @]

\* NewCertificate carrying the level the test document held when it was read
NewCertificateStaleLevel(test, testId, levelAchieved) ==
  [userId |-> test.userId, levelAchieved |-> test.levelAchieved, testId |-> testId]

\* new Certificate({ userId: test.userId, levelAchieved, testId: test._id })
NewCertificate(test, testId, levelAchieved) ==
  [userId |-> test.userId, levelAchieved |-> levelAchieved, testId |-> testId]

\* CertificateEmails scheduling an email for every completion
CertificateEmailsAlways(testId, certificate) ==
  <<[testId |-> testId, status |-> "scheduled"]>>

\* if (certificate) setImmediate(async () => { await sendCertificateEmail(...) })
CertificateEmails(testId, certificate) ==
  IF certificate # <<>>
  THEN <<[testId |-> testId, status |-> "scheduled"]>>
  ELSE <<>>

\* the outcomes of the setImmediate callback
EmailOutcomes == {"sent", "failed"}

\* the setImmediate callback: sendCertificateEmail resolves, or it fails and
\* the failure is logged
SendCertificateEmail(m, outcome) ==
  /\ m \in DOMAIN mail
  /\ mail[m].status = "scheduled"
  /\ mail' = [mail EXCEPT ![m].status = outcome]
  /\ UNCHANGED <<db, result, pc, loc, pure, now, reqUser>>

\* completeAssessmentCode without the "Test already completed" check
completeAssessmentCodeNoCompletedCheck(testId) ==
  IF testId \notin TestIds THEN NOT_FOUND
  ELSE IF Len(responses[testId]) = 0 THEN INTERNAL_SERVER_ERROR
  ELSE IF tests[testId].userId \notin DOMAIN users THEN NOT_FOUND
  ELSE OK

\* the statusCode completeAssessment ends with in the current state
completeAssessmentCode(testId) ==
  IF testId \notin TestIds THEN NOT_FOUND
  ELSE IF tests[testId].status = "completed" THEN BAD_REQUEST
  ELSE IF Len(responses[testId]) = 0 THEN INTERNAL_SERVER_ERROR
  ELSE IF tests[testId].userId \notin DOMAIN users THEN NOT_FOUND
  ELSE OK

completeAssessment(testId) ==
  LET code == completeAssessmentCode(testId)
      test == tests[testId]
      rs == responses[testId]
      score == ComputeScore(rs)
      progression == calculateProgression(test.step, score)
      certificate == IF progression.levelAchieved # NoLevel
                     THEN <<NewCertificate(test, testId, progression.levelAchieved)>>
                     ELSE <<>>
  IN /\ UNCHANGED <<questions, responses, pc, loc, pure, now, reqUser>>
     /\ result' = Response("complete", code, IF code = OK THEN testId ELSE 0)
     /\ IF code # OK
        THEN UNCHANGED <<tests, users, certificates, mail, now, reqUser>>
        ELSE /\ tests' = [tests EXCEPT ![testId] =
                            CompletedTest(@, CountCorrect(rs), score, progression)]
             /\ users' = [users EXCEPT ![test.userId] = UpdatedUser(@, progression)]
             /\ certificates' = certificates \o certificate
             /\ mail' = mail \o CertificateEmails(testId, certificate)

(* ------------------ the sequential specification ---------------------- *)

\* a freshly registered student
NewUser == [assessmentStatus |-> "eligible", highestLevelAchieved |-> NoLevel]

InitDb(userIds) ==
  /\ now = 0
  /\ reqUser = "u1"
  /\ users = [u \in userIds |-> NewUser]
  /\ questions = QuestionBank
  /\ tests = <<>>
  /\ responses = <<>>
  /\ certificates = <<>>
  /\ result = NoResult
  /\ pc = [w \in Workers |-> "idle"]
  /\ loc = [w \in Workers |-> IdleLoc]

Init == InitDb(Users) /\ pure = NoPure /\ mail = <<>>

\* the test ids a client sends
TestIdInputs == 1..Len(tests)

\* the options a client sends with an answer; a rejected submitAnswer never
\* reads the option, so one stands for them all
OptionInputs(testId, questionId) ==
  IF submitAnswerCode(testId, questionId) = OK
  THEN SelectedOptions
  ELSE {MinOf(SelectedOptions)}

Next ==
  \/ \E u \in DOMAIN users, s \in TestSteps : startAssessment(u, s)
  \/ \E t \in TestIdInputs, q \in DOMAIN questions :
        \E o \in OptionInputs(t, q) : submitAnswer(t, q, o)
  \/ \E t \in TestIdInputs : skipQuestion(t)
  \/ \E t \in TestIdInputs, d \in Directions : navigateQuestion(t, d)
  \/ \E t \in TestIdInputs : completeAssessment(t)

Spec == Init /\ [][Next]_vars

(* ----------------- the single-session specification ------------------- *)
(* One student right after startAssessment created the session over a     *)
(* pool of 1..MaxQuestions step-1 questions; every call on that session.   *)

InitSession ==
  /\ now = 0
  /\ reqUser = "u1"
  /\ users = [u \in Users |-> NewUser]
  /\ \E n \in 1..MaxQuestions : questions = SessionBank(n)
  /\ tests = <<NewTest("u1", 1, FindStepQuestions(1))>>
  /\ responses = <<NewResponses(FindStepQuestions(1))>>
  /\ certificates = <<>>
  /\ result = Response("start", OK, 1)
  /\ pc = [w \in Workers |-> "idle"]
  /\ loc = [w \in Workers |-> IdleLoc]
  /\ pure = NoPure
  /\ mail = <<>>

NextSession ==
  \/ \E t \in TestIdInputs : getCurrentQuestion(t)
  \/ \E t \in TestIdInputs, q \in DOMAIN questions :
        \E o \in OptionInputs(t, q) : submitAnswer(t, q, o)
  \/ \E t \in TestIdInputs : skipQuestion(t)
  \/ \E t \in TestIdInputs, d \in Directions : navigateQuestion(t, d)
  \/ \E t \in TestIdInputs : completeAssessment(t)

SpecSession == InitSession /\ [][NextSession]_vars

(* --------------------- the callers specification ---------------------- *)
(* Two authenticated students and the controller: authenticateToken sets   *)
(* req.user, startAssessment is called with req.user.id, every other       *)
(* handler is called with req.params.testId alone.  Each student starts    *)
(* one session.                                                            *)

\* authenticateToken: req.user = the student the token belongs to
Authenticate(userId) ==
  /\ reqUser' = userId
  /\ UNCHANGED <<db, result, pc, loc, pure, mail, now>>

InitCallers ==
  /\ now = 0
  /\ reqUser \in RaceUsers
  /\ users = [u \in RaceUsers |-> NewUser]
  /\ questions = SessionBank(MaxRaceQuestions)
  /\ tests = <<>>
  /\ responses = <<>>
  /\ certificates = <<>>
  /\ result = NoResult
  /\ pc = [w \in Workers |-> "idle"]
  /\ loc = [w \in Workers |-> IdleLoc]
  /\ pure = NoPure
  /\ mail = <<>>

NextCallers ==
  \/ \E u \in RaceUsers : Authenticate(u)
  \/ (\A t \in TestIds : tests[t].userId # reqUser) /\ startAssessment(reqUser, 1)
  \/ \E t \in TestIdInputs : getCurrentQuestion(t)
  \/ \E t \in TestIdInputs, q \in DOMAIN questions :
        \E o \in OptionInputs(t, q) : submitAnswer(t, q, o)
  \/ \E t \in TestIdInputs : skipQuestion(t)
  \/ \E t \in TestIdInputs, d \in Directions : navigateQuestion(t, d)
  \/ \E t \in TestIdInputs : completeAssessment(t)

SpecCallers == InitCallers /\ [][NextCallers]_vars

(* ---------------------- the errors specification ---------------------- *)
(* One student's calls with the ids of the sessions there are and with an  *)
(* id no session has, and starts of steps 1 and 2 over a bank that has     *)
(* step-1 questions only.                                                  *)

\* req.params.testId: a session's id, or a well-formed id of no session
RequestIds == TestIdInputs \cup {Len(tests) + 1}

InitErrors ==
  /\ now = 0
  /\ reqUser = "u1"
  /\ users = [u \in Users |-> NewUser]
  /\ \E n \in 1..MaxRaceQuestions : questions = SessionBank(n)
  /\ tests = <<>>
  /\ responses = <<>>
  /\ certificates = <<>>
  /\ result = NoResult
  /\ pc = [w \in Workers |-> "idle"]
  /\ loc = [w \in Workers |-> IdleLoc]
  /\ pure = NoPure
  /\ mail = <<>>

NextErrors ==
  \/ \E s \in {1, 2} : Len(tests) < MaxRaceTests /\ startAssessment(reqUser, s)
  \/ \E t \in RequestIds : getCurrentQuestion(t)
  \/ \E t \in RequestIds, q \in DOMAIN questions :
        \E o \in OptionInputs(t, q) : submitAnswer(t, q, o)
  \/ \E t \in RequestIds : skipQuestion(t)
  \/ \E t \in RequestIds, d \in Directions : navigateQuestion(t, d)
  \/ \E t \in RequestIds : completeAssessment(t)

SpecErrors == InitErrors /\ [][NextErrors]_vars

(* ------------------ the timed session specification ------------------- *)
(* The single session under a clock that moves between the calls.         *)

\* the clock moves in steps of TickSeconds, MaxTicks times
TickSeconds == 40
MaxTicks == 5

\* time passes between two calls
Tick ==
  /\ now < MaxTicks * TickSeconds
  /\ now' = now + TickSeconds
  /\ UNCHANGED <<db, result, pc, loc, pure, mail, reqUser>>

NextClock == NextSession \/ Tick

SpecClock == InitSession /\ [][NextClock]_vars

(* -------------------- the policy specification ------------------------- *)
(* The pure helpers applied to arguments drawn by Init.                    *)

Scores == 0..100
StoredLevels == SeqRange(levelOrder) \cup {NoLevel}

InitProg ==
  /\ InitDb(Users)
  /\ mail = <<>>
  /\ \/ \E step \in TestSteps, score \in Scores :
          pure = [fn |-> "calculateProgression", step |-> step, score |-> score,
                  done |-> FALSE]
     \/ \E cur \in StoredLevels, new \in SeqRange(levelOrder) :
          pure = [fn |-> "shouldUpdateUserLevel", currentLevel |-> cur,
                  newLevel |-> new, done |-> FALSE]

ApplyCalculateProgression ==
  /\ pure.fn = "calculateProgression" /\ ~pure.done
  /\ pure' = [fn |-> "calculateProgression", step |-> pure.step,
              score |-> pure.score, done |-> TRUE,
              value |-> calculateProgression(pure.step, pure.score)]
  /\ UNCHANGED <<users, questions, tests, responses, certificates, result, pc, loc, mail, now, reqUser>>

ApplyShouldUpdateUserLevel ==
  /\ pure.fn = "shouldUpdateUserLevel" /\ ~pure.done
  /\ pure' = [fn |-> "shouldUpdateUserLevel", currentLevel |-> pure.currentLevel,
              newLevel |-> pure.newLevel, done |-> TRUE,
              value |-> shouldUpdateUserLevel(pure.currentLevel, pure.newLevel)]
  /\ UNCHANGED <<users, questions, tests, responses, certificates, result, pc, loc, mail, now, reqUser>>

NextProg ==
  \/ ApplyCalculateProgression
  \/ ApplyShouldUpdateUserLevel

SpecProg == InitProg /\ [][NextProg]_vars

(* ------------------ the interleaved specification --------------------- *)
(* startAssessment as its awaited steps, run by concurrent handlers: the   *)
(* eligibility check, the active-test lookup, the question query, the      *)
(* test save and the response insert.  The other handlers run as units.    *)

SetLoc(w, l) == [loc EXCEPT ![w] = l]
Goto(w, label) == [pc EXCEPT ![w] = label]

\* await checkUserEligibility(userId, step)
StartEligibility(w, userId, step) ==
  /\ pc[w] = "idle"
  /\ UNCHANGED <<db, pure, mail, now, reqUser>>
  /\ IF checkUserEligibility(userId, step) # OK
     THEN /\ result' = Response("start", FORBIDDEN, 0)
          /\ UNCHANGED <<pc, loc>>
     ELSE /\ pc' = Goto(w, "start_findActive")
          /\ loc' = SetLoc(w, [IdleLoc EXCEPT !.userId = userId, !.step = step])
          /\ UNCHANGED result

\* await Test.findOne({ userId, step, status: "in_progress" })
StartFindActive(w) ==
  /\ pc[w] = "start_findActive"
  /\ UNCHANGED <<db, pure, mail, now, reqUser>>
  /\ LET activeTest == FindActiveTest(loc[w].userId, loc[w].step)
     IN IF activeTest # 0
        THEN /\ result' = Response("start", OK, activeTest)
             /\ pc' = Goto(w, "idle")
             /\ loc' = SetLoc(w, IdleLoc)
        ELSE /\ pc' = Goto(w, "start_findQuestions")
             /\ UNCHANGED <<result, loc>>

\* await Question.find(...).sort(...)
StartFindQuestions(w) ==
  /\ pc[w] = "start_findQuestions"
  /\ UNCHANGED <<db, pure, mail, now, reqUser>>
  /\ LET questionOrder == FindStepQuestions(loc[w].step)
     IN IF questionOrder = <<>>
        THEN /\ result' = Response("start", CONFLICT, 0)
             /\ pc' = Goto(w, "idle")
             /\ loc' = SetLoc(w, IdleLoc)
        ELSE /\ pc' = Goto(w, "start_save")
             /\ loc' = SetLoc(w, [loc[w] EXCEPT !.order = questionOrder])
             /\ UNCHANGED result

\* await test.save()
StartSave(w) ==
  /\ pc[w] = "start_save"
  /\ Len(tests) < MaxRaceTests
  /\ tests' = Append(tests, NewTest(loc[w].userId, loc[w].step, loc[w].order))
  /\ responses' = Append(responses, <<>>)
  /\ pc' = Goto(w, "start_insert")
  /\ loc' = SetLoc(w, [loc[w] EXCEPT !.testId = Len(tests) + 1])
  /\ UNCHANGED <<users, questions, certificates, result, pure, mail, now, reqUser>>

\* await TestResponse.insertMany(testResponses)
StartInsert(w) ==
  /\ pc[w] = "start_insert"
  /\ responses' = [responses EXCEPT ![loc[w].testId] = NewResponses(loc[w].order)]
  /\ result' = Response("start", OK, loc[w].testId)
  /\ pc' = Goto(w, "idle")
  /\ loc' = SetLoc(w, IdleLoc)
  /\ UNCHANGED <<users, questions, tests, certificates, pure, mail, now, reqUser>>

NextRace ==
  \/ \E w \in Workers, u \in DOMAIN users, s \in TestSteps : StartEligibility(w, u, s)
  \/ \E w \in Workers : StartFindActive(w)
  \/ \E w \in Workers : StartFindQuestions(w)
  \/ \E w \in Workers : StartSave(w)
  \/ \E w \in Workers : StartInsert(w)
  \/ \E t \in TestIdInputs, q \in DOMAIN questions :
        \E o \in OptionInputs(t, q) : submitAnswer(t, q, o)
  \/ \E t \in TestIdInputs : completeAssessment(t)

InitRace == InitDb(RaceUsers) /\ pure = NoPure /\ mail = <<>>

SpecRace == InitRace /\ [][NextRace]_vars

(* ----------------- the administration specification ------------------- *)
(* The admin's question updates and soft deletes next to a student's       *)
(* startAssessment and submitAnswer, over a bank of step-1 questions.      *)

\* every question has exactly 4 options
NumOptions == 4

\* Number.isInteger(index) && index >= 0 && index < optionsLength
validateCorrectAnswerIndex(index, optionsLength) ==
  index \in Int /\ index >= 0 /\ index < optionsLength

\* Object.assign(question, updateData)
ObjectAssign(question, updateData) ==
  [f \in DOMAIN question |->
     IF f \in DOMAIN updateData THEN updateData[f] ELSE question[f]]

\* the updateData an admin sends: a new correct option (4 is out of range)
\* or a reactivation
UpdateInputs ==
  {[correctOptionIndex |-> o] : o \in SelectedOptions \cup {NumOptions}}
    \cup {[isActive |-> TRUE]}

updateQuestionCode(questionId, updateData) ==
  IF questionId \notin DOMAIN questions THEN NOT_FOUND
  ELSE IF /\ "correctOptionIndex" \in DOMAIN updateData
          /\ ~validateCorrectAnswerIndex(updateData.correctOptionIndex, NumOptions)
  THEN BAD_REQUEST
  ELSE OK

updateQuestion(questionId, updateData) ==
  /\ result' = Response("updateQuestion", updateQuestionCode(questionId, updateData), 0)
  /\ questions' = IF updateQuestionCode(questionId, updateData) = OK
                  THEN [questions EXCEPT ![questionId] = ObjectAssign(@, updateData)]
                  ELSE questions
  /\ UNCHANGED <<users, tests, responses, certificates, pc, loc, pure, mail, now, reqUser>>

\* "Soft delete by setting isActive to false"
deleteQuestion(questionId) ==
  /\ result' = Response("deleteQuestion",
                        IF questionId \in DOMAIN questions THEN OK ELSE NOT_FOUND, 0)
  /\ questions' = IF questionId \in DOMAIN questions
                  THEN [questions EXCEPT ![questionId].isActive = FALSE]
                  ELSE questions
  /\ UNCHANGED <<users, tests, responses, certificates, pc, loc, pure, mail, now, reqUser>>

InitAdmin ==
  /\ now = 0
  /\ reqUser = "u1"
  /\ users = [u \in Users |-> NewUser]
  /\ questions = SessionBank(MaxAdminQuestions)
  /\ tests = <<>>
  /\ responses = <<>>
  /\ certificates = <<>>
  /\ result = NoResult
  /\ pc = [w \in Workers |-> "idle"]
  /\ loc = [w \in Workers |-> IdleLoc]
  /\ pure = NoPure
  /\ mail = <<>>

NextAdmin ==
  \/ \E q \in DOMAIN questions, d \in UpdateInputs : updateQuestion(q, d)
  \/ \E q \in DOMAIN questions : deleteQuestion(q)
  \/ \E u \in DOMAIN users : startAssessment(u, 1)
  \/ \E t \in TestIdInputs, q \in DOMAIN questions :
        \E o \in OptionInputs(t, q) : submitAnswer(t, q, o)

SpecAdmin == InitAdmin /\ [][NextAdmin]_vars

(* -------------------- the full-step specification --------------------- *)
(* One student's first pass through a step 1 of the size the Test schema  *)
(* defaults to, question by question, and on into step 2.                 *)

\* totalQuestions: { type: Number, default: 44 }
ScenarioQuestions == 44

\* 22 competencies at A1 and A2, and one B1 question for step 2
ScenarioBank ==
  [ q \in 1..(ScenarioQuestions + 1) |->
      IF q <= ScenarioQuestions
      THEN SessionBank(ScenarioQuestions)[q]
      ELSE [competencyId |-> 1, level |-> "B1",
            correctOptionIndex |-> 2, isActive |-> TRUE] ]

\* the options the student sends for the current question: the score depends
\* only on how many answers are correct, so the wrong answers of a session
\* come first and the correct ones after them
ScenarioOptions(testId) ==
  {o \in SelectedOptions :
     \/ o = questions[tests[testId].currentQuestionId].correctOptionIndex
     \/ CountCorrect(responses[testId]) = 0}

InitScenario ==
  /\ now = 0
  /\ reqUser = "u1"
  /\ users = [u \in Users |-> NewUser]
  /\ questions = ScenarioBank
  /\ tests = <<>>
  /\ responses = <<>>
  /\ certificates = <<>>
  /\ result = NoResult
  /\ pc = [w \in Workers |-> "idle"]
  /\ loc = [w \in Workers |-> IdleLoc]
  /\ pure = NoPure
  /\ mail = <<>>

NextScenario ==
  \/ \E u \in DOMAIN users : tests = <<>> /\ startAssessment(u, 1)
  \/ \E u \in DOMAIN users : startAssessment(u, 2)
  \/ \E t \in TestIdInputs :
        \E o \in ScenarioOptions(t) : submitAnswer(t, tests[t].currentQuestionId, o)
  \/ \E t \in TestIdInputs : completeAssessment(t)

SpecScenario == InitScenario /\ [][NextScenario]_vars

(* ------------- the interleaved single-session specification ----------- *)
(* submitAnswer, skipQuestion and completeAssessment as their awaited      *)
(* steps, run by concurrent handlers on one session.  A document loaded by *)
(* a find is the handler's own copy; save() writes the paths the handler   *)
(* modified on it.  completeAssessment runs in a MongoDB transaction: it   *)
(* reads the snapshot taken by its first read, its saves stay pending      *)
(* until commitTransaction, a save of a document that changed since the    *)
(* snapshot or that another open transaction has saved throws a write      *)
(* conflict, and a plain save waits for a pending save of its document.    *)

TransactionSteps ==
  {"complete_saveTest", "complete_saveUser", "complete_saveCertificate",
   "complete_commit"}

\* an open transaction holds a pending save of test t
TestLocked(t) ==
  \E w \in Workers : pc[w] \in TransactionSteps /\ loc[w].testId = t /\ loc[w].savedTest

\* an open transaction holds a pending save of user u
UserLocked(u) ==
  \E w \in Workers : pc[w] \in TransactionSteps /\ loc[w].test.userId = u /\ loc[w].savedUser

\* the handler returns: its ApiResponse, and its locals are dropped
Return(w, op, code, testId) ==
  /\ result' = Response(op, code, testId)
  /\ pc' = Goto(w, "idle")
  /\ loc' = SetLoc(w, IdleLoc)

\* const test = await Test.findById(testId)
SubmitFindTest(w, testId, questionId, selectedOptionIndex) ==
  /\ pc[w] = "idle"
  /\ UNCHANGED <<db, pure, mail, now, reqUser>>
  /\ IF testId \notin TestIds \/ tests[testId].status # "in_progress"
     THEN Return(w, "submit", BAD_REQUEST, 0)
     ELSE /\ pc' = Goto(w, "submit_findResponse")
          /\ loc' = SetLoc(w, [testId |-> testId, questionId |-> questionId,
                               selectedOptionIndex |-> selectedOptionIndex,
                               test |-> tests[testId]])
          /\ UNCHANGED result

\* await Question.findById(questionId); await TestResponse.findOne(...)
SubmitFindResponse(w) ==
  /\ pc[w] = "submit_findResponse"
  /\ UNCHANGED <<db, pure, mail, now, reqUser>>
  /\ LET k == FindResponseByQuestion(loc[w].testId, loc[w].questionId)
     IN IF loc[w].questionId \notin DOMAIN questions \/ k = 0
        THEN Return(w, "submit", NOT_FOUND, 0)
        ELSE IF responses[loc[w].testId][k].selectedOptionIndex # Unset
        THEN Return(w, "submit", BAD_REQUEST, 0)
        ELSE /\ pc' = Goto(w, "submit_saveResponse")
             /\ loc' = SetLoc(w, [testId |-> loc[w].testId,
                                  questionId |-> loc[w].questionId,
                                  selectedOptionIndex |-> loc[w].selectedOptionIndex,
                                  test |-> loc[w].test,
                                  k |-> k,
                                  testResponse |-> responses[loc[w].testId][k]])
             /\ UNCHANGED result

\* await testResponse.save(): isSkipped is a modified path only if the loaded
\* row was skipped
SubmitSaveResponse(w) ==
  /\ pc[w] = "submit_saveResponse"
  /\ LET answered == AnsweredResponse(loc[w].testResponse,
                                      loc[w].selectedOptionIndex,
                                      questions[loc[w].questionId].correctOptionIndex)
     IN responses' = [responses EXCEPT ![loc[w].testId][loc[w].k] =
          [@ EXCEPT !.selectedOptionIndex = answered.selectedOptionIndex,
                    !.isCorrect = answered.isCorrect,
                    !.isSkipped = IF loc[w].testResponse.isSkipped THEN FALSE ELSE @]]
  /\ pc' = Goto(w, "submit_saveTest")
  /\ UNCHANGED <<users, questions, tests, certificates, result, loc, pure, mail, now, reqUser>>

\* the paths of the loaded test that differ in the saved one, written onto
\* the stored document
SaveTestPaths(stored, loaded, saved) ==
  [stored EXCEPT
     !.questionsAnswered = IF saved.questionsAnswered # loaded.questionsAnswered
                           THEN saved.questionsAnswered ELSE @,
     !.currentQuestionIndex = IF saved.currentQuestionIndex # loaded.currentQuestionIndex
                              THEN saved.currentQuestionIndex ELSE @,
     !.currentQuestionId = IF saved.currentQuestionId # loaded.currentQuestionId
                           THEN saved.currentQuestionId ELSE @]

\* await test.save(), after the questionStartTime of the next response
SubmitSaveTest(w) ==
  /\ pc[w] = "submit_saveTest"
  /\ ~TestLocked(loc[w].testId)
  /\ tests' = [tests EXCEPT ![loc[w].testId] =
                  SaveTestPaths(@, loc[w].test, TestAfterAnswer(loc[w].test))]
  /\ Return(w, "submit", OK, 0)
  /\ UNCHANGED <<users, questions, responses, certificates, pure, mail, now, reqUser>>

\* const test = await Test.findById(testId)
SkipFindTest(w, testId) ==
  /\ pc[w] = "idle"
  /\ UNCHANGED <<db, pure, mail, now, reqUser>>
  /\ IF testId \notin TestIds \/ tests[testId].status # "in_progress"
     THEN Return(w, "skip", BAD_REQUEST, 0)
     ELSE /\ pc' = Goto(w, "skip_findResponse")
          /\ loc' = SetLoc(w, [testId |-> testId, test |-> tests[testId]])
          /\ UNCHANGED result

\* await TestResponse.findOne({ testId, questionOrder: test.currentQuestionIndex })
SkipFindResponse(w) ==
  /\ pc[w] = "skip_findResponse"
  /\ UNCHANGED <<db, pure, mail, now, reqUser>>
  /\ LET k == FindResponseByOrder(loc[w].testId, loc[w].test.currentQuestionIndex)
     IN IF k = 0
        THEN Return(w, "skip", NOT_FOUND, 0)
        ELSE IF IsAnsweredOrSkipped(responses[loc[w].testId][k])
        THEN Return(w, "skip", BAD_REQUEST, 0)
        ELSE /\ pc' = Goto(w, "skip_saveResponse")
             /\ loc' = SetLoc(w, [testId |-> loc[w].testId, test |-> loc[w].test,
                                  k |-> k])
             /\ UNCHANGED result

\* await currentResponse.save()
SkipSaveResponse(w) ==
  /\ pc[w] = "skip_saveResponse"
  /\ responses' = [responses EXCEPT ![loc[w].testId][loc[w].k] = SkippedResponse(@)]
  /\ pc' = Goto(w, "skip_saveTest")
  /\ UNCHANGED <<users, questions, tests, certificates, result, loc, pure, mail, now, reqUser>>

\* await test.save(), after the questionStartTime of the next response; a
\* document without modified paths is not written
SkipSaveTest(w) ==
  /\ pc[w] = "skip_saveTest"
  /\ TestAfterSkip(loc[w].test) # loc[w].test => ~TestLocked(loc[w].testId)
  /\ tests' = [tests EXCEPT ![loc[w].testId] =
                  SaveTestPaths(@, loc[w].test, TestAfterSkip(loc[w].test))]
  /\ Return(w, "skip", OK, 0)
  /\ UNCHANGED <<users, questions, responses, certificates, pure, mail, now, reqUser>>

\* session.startTransaction(); Test.findById(testId).session(session);
\* TestResponse.find({ testId }).session(session); the score and progression
CompleteBegin(w, testId) ==
  /\ pc[w] = "idle"
  /\ UNCHANGED <<db, pure, mail, now, reqUser>>
  /\ IF testId \notin TestIds
     THEN Return(w, "complete", NOT_FOUND, 0)
     ELSE IF tests[testId].status = "completed"
     THEN Return(w, "complete", BAD_REQUEST, 0)
     ELSE IF Len(responses[testId]) = 0
     THEN Return(w, "complete", INTERNAL_SERVER_ERROR, 0)
     ELSE /\ pc' = Goto(w, "complete_saveTest")
          /\ loc' = SetLoc(w, [testId |-> testId,
                               test |-> tests[testId],
                               correctAnswers |-> CountCorrect(responses[testId]),
                               score |-> ComputeScore(responses[testId]),
                               user |-> users[tests[testId].userId],
                               savedTest |-> FALSE,
                               savedUser |-> FALSE,
                               certificate |-> <<>>])
          /\ UNCHANGED result

\* catch (error) { await session.abortTransaction(); throw error; }
AbortTransaction(w) ==
  /\ Return(w, "complete", INTERNAL_SERVER_ERROR, 0)
  /\ UNCHANGED <<db, pure, mail, now, reqUser>>

\* await test.save({ session })
CompleteSaveTest(w) ==
  /\ pc[w] = "complete_saveTest"
  /\ IF tests[loc[w].testId] # loc[w].test \/ TestLocked(loc[w].testId)
     THEN AbortTransaction(w)
     ELSE /\ pc' = Goto(w, "complete_saveUser")
          /\ loc' = SetLoc(w, [loc[w] EXCEPT !.savedTest = TRUE])
          /\ UNCHANGED <<db, result, pure, mail, now, reqUser>>

\* User.findById(test.userId).session(session); await user.save({ session })
CompleteSaveUser(w) ==
  /\ pc[w] = "complete_saveUser"
  /\ IF users[loc[w].test.userId] # loc[w].user \/ UserLocked(loc[w].test.userId)
     THEN AbortTransaction(w)
     ELSE /\ pc' = Goto(w, "complete_saveCertificate")
          /\ loc' = SetLoc(w, [loc[w] EXCEPT !.savedUser = TRUE])
          /\ UNCHANGED <<db, result, pure, mail, now, reqUser>>

\* CompleteSaveCertificate saving the certificate outside the transaction
CompleteSaveCertificateNoSession(w) ==
  LET progression == calculateProgression(loc[w].test.step, loc[w].score)
  IN /\ pc[w] = "complete_saveCertificate"
     /\ pc' = Goto(w, "complete_commit")
     /\ certificates' =
          IF progression.levelAchieved # NoLevel
          THEN Append(certificates,
                      NewCertificate(loc[w].test, loc[w].testId,
                                     progression.levelAchieved))
          ELSE certificates
     /\ UNCHANGED <<users, questions, tests, responses, result, loc, pure, mail, now, reqUser>>

\* if (levelAchieved) await certificate.save({ session })
CompleteSaveCertificate(w) ==
  LET progression == calculateProgression(loc[w].test.step, loc[w].score)
  IN /\ pc[w] = "complete_saveCertificate"
     /\ pc' = Goto(w, "complete_commit")
     /\ loc' = SetLoc(w, [loc[w] EXCEPT !.certificate =
                            IF progression.levelAchieved # NoLevel
                            THEN <<NewCertificate(loc[w].test, loc[w].testId,
                                                  progression.levelAchieved)>>
                            ELSE <<>>])
     /\ UNCHANGED <<db, result, pure, mail, now, reqUser>>

\* await session.commitTransaction(): the pending saves become visible
CompleteCommit(w) ==
  LET progression == calculateProgression(loc[w].test.step, loc[w].score)
  IN /\ pc[w] = "complete_commit"
     /\ tests' = [tests EXCEPT ![loc[w].testId] =
                     CompletedTest(loc[w].test, loc[w].correctAnswers,
                                   loc[w].score, progression)]
     /\ users' = [users EXCEPT ![loc[w].test.userId] =
                     UpdatedUser(loc[w].user, progression)]
     /\ certificates' = certificates \o loc[w].certificate
     /\ mail' = mail \o CertificateEmails(loc[w].testId, loc[w].certificate)
     /\ Return(w, "complete", OK, loc[w].testId)
     /\ UNCHANGED <<questions, responses, pure, now, reqUser>>

\* an operation of the transaction fails (connection lost, validation error)
CompleteFail(w) ==
  /\ pc[w] \in TransactionSteps
  /\ AbortTransaction(w)

InitSessionRace ==
  /\ now = 0
  /\ reqUser = "u1"
  /\ users = [u \in Users |-> NewUser]
  /\ \E n \in 1..MaxRaceQuestions : questions = SessionBank(n)
  /\ tests = <<NewTest("u1", 1, FindStepQuestions(1))>>
  /\ responses = <<NewResponses(FindStepQuestions(1))>>
  /\ certificates = <<>>
  /\ result = Response("start", OK, 1)
  /\ pc = [w \in Workers |-> "idle"]
  /\ loc = [w \in Workers |-> IdleLoc]
  /\ pure = NoPure
  /\ mail = <<>>

NextSessionRace ==
  \/ \E w \in Workers, t \in TestIdInputs, q \in DOMAIN questions,
        o \in SelectedOptions : SubmitFindTest(w, t, q, o)
  \/ \E w \in Workers : SubmitFindResponse(w)
  \/ \E w \in Workers : SubmitSaveResponse(w)
  \/ \E w \in Workers : SubmitSaveTest(w)
  \/ \E w \in Workers, t \in TestIdInputs : SkipFindTest(w, t)
  \/ \E w \in Workers : SkipFindResponse(w)
  \/ \E w \in Workers : SkipSaveResponse(w)
  \/ \E w \in Workers : SkipSaveTest(w)
  \/ \E w \in Workers, t \in TestIdInputs : CompleteBegin(w, t)
  \/ \E w \in Workers : CompleteSaveTest(w)
  \/ \E w \in Workers : CompleteSaveUser(w)
  \/ \E w \in Workers : CompleteSaveCertificate(w)
  \/ \E w \in Workers : CompleteCommit(w)
  \/ \E w \in Workers : CompleteFail(w)
  \/ \E m \in DOMAIN mail, outcome \in EmailOutcomes : SendCertificateEmail(m, outcome)

SpecSessionRace == InitSessionRace /\ [][NextSessionRace]_vars

(* ======================================================================= *)
(*                              Properties                                 *)
(* ======================================================================= *)

InProgress(t) == tests[t].status = "in_progress"
Completed(t) == tests[t].status = "completed"
Blocked(u) == users[u].assessmentStatus = "blocked_step1_failure"

\* position of a level in A1 < A2 < B1 < B2 < C1 < C2; 0 for no level
Rank(level) ==
  CASE level = NoLevel -> 0
    [] level = "A1" -> 1 [] level = "A2" -> 2 [] level = "B1" -> 3
    [] level = "B2" -> 4 [] level = "C1" -> 5 [] level = "C2" -> 6

RECURSIVE NumCorrect(_)
NumCorrect(rs) ==
  IF rs = <<>> THEN 0
  ELSE (IF Head(rs).isCorrect = "true" THEN 1 ELSE 0) + NumCorrect(Tail(rs))

\* s = round(100 * c / n), halves rounded up
IsRoundedPercent(s, c, n) ==
  /\ s \in 0..100
  /\ 2 * (100 * c - s * n) <= n
  /\ 2 * (100 * c - s * n) > -n

(* ----------------------------- C1 -------------------------------------- *)

Band(score) ==
  IF score <= 24 THEN 1 ELSE IF score <= 49 THEN 2 ELSE IF score <= 74 THEN 3 ELSE 4

LevelTable ==
  << <<NoLevel, "A1", "A2", "A2">>,
     <<"A2",    "B1", "B2", "B2">>,
     <<"B2",    "C1", "C2", "C2">> >>

\* C1: for every step in {1,2,3} and every integer score in 0..100,
\* calculateProgression returns the row of the threshold table: the level of
\* the score's band, canProceedToNextStep exactly for score >= 75 on steps 1
\* and 2, blocksRetake exactly for step 1 with score < 25.
C1_ProgressionTable ==
  (pure.fn = "calculateProgression" /\ pure.done) =>
     /\ pure.value.levelAchieved = LevelTable[pure.step][Band(pure.score)]
     /\ pure.value.canProceedToNextStep = (pure.score >= 75 /\ pure.step \in {1, 2})
     /\ pure.value.blocksRetake = (pure.step = 1 /\ pure.score < 25)

C1_Witness ==
  /\ pure.fn = "calculateProgression" /\ pure.done
  /\ pure.step = 1 /\ pure.score = 24
  /\ pure.value.blocksRetake

(* ----------------------------- C2 -------------------------------------- *)

InProgressOf(u, s) ==
  {t \in TestIds : tests[t].userId = u /\ tests[t].step = s /\ InProgress(t)}

\* C3: under any interleaving of concurrent start calls there is never more
\* than one in_progress TestSession for a given (userId, step).
C3_OneInProgressPerUserStep ==
  \A u \in DOMAIN users, s \in TestSteps : Cardinality(InProgressOf(u, s)) <= 1

(* ----------------------------- C4 -------------------------------------- *)

C5_BlockedStartForbidden ==
  [][ \A u \in DOMAIN users, s \in TestSteps :
        (Blocked(u) /\ startAssessment(u, s)) =>
           /\ result' = Response("start", FORBIDDEN, 0)
           /\ UNCHANGED db ]_vars

C5_Witness ==
  /\ result = Response("start", FORBIDDEN, 0)
  /\ \A u \in DOMAIN users : Blocked(u)

(* ----------------------------- C6 -------------------------------------- *)

\* p is a completed session of user u for step s that allows proceeding
PassedBy(p, u, s) ==
  /\ tests[p].userId = u /\ tests[p].step = s
  /\ Completed(p)
  /\ tests[p].canProceedToNextStep
  /\ tests[p].score >= 75

\* C6: a session for step k in {2,3} is created only in a state in which its
\* user has a completed step k-1 session with canProceedToNextStep (score >=
\* 75), and every existing step-k session has such an earlier session.
C6_StepGating ==
  /\ [](\A t \in TestIds :
          tests[t].step > 1 =>
            \E p \in 1..(t - 1) : PassedBy(p, tests[t].userId, tests[t].step - 1))
  /\ [][ \A t \in 1..Len(tests') :
           (t > Len(tests) /\ tests'[t].step > 1) =>
             \E p \in TestIds : PassedBy(p, tests'[t].userId, tests'[t].step - 1) ]_vars

C6_Witness ==
  /\ \E t \in TestIds : tests[t].step = 2
  /\ \E t \in TestIds : tests[t].step = 3

(* ----------------------------- C7 -------------------------------------- *)

\* C7: a step-1 completion with score < 25 leaves the user blocked, a blocked
\* user is never made eligible again, and every start of a blocked user fails
\* with 403 Forbidden.
C7_BlockIsPermanent ==
  /\ [](\A t \in TestIds :
          (Completed(t) /\ tests[t].step = 1 /\ tests[t].score < 25) =>
             (tests[t].blocksRetake /\ Blocked(tests[t].userId)))
  /\ [][ \A u \in DOMAIN users : Blocked(u) => Blocked(u)' ]_vars
  /\ [][ \A u \in DOMAIN users, s \in TestSteps :
           (Blocked(u) /\ startAssessment(u, s)) =>
              (result'.code = FORBIDDEN /\ tests' = tests) ]_vars

\* step 1 finished with a wrong answer, score 0, the user is blocked while a
\* step-2 session is still open, and the start that followed was refused
C7_Witness ==
  /\ result = Response("start", FORBIDDEN, 0)
  /\ \E t \in TestIds :
       /\ tests[t].step = 1 /\ Completed(t)
       /\ tests[t].score = 0 /\ tests[t].blocksRetake
       /\ \E k \in 1..Len(responses[t]) : responses[t][k].isCorrect = "false"
       /\ Blocked(tests[t].userId)
       /\ \E p \in TestIds : tests[p].step = 2 /\ tests[p].userId = tests[t].userId

(* ----------------------------- C8 -------------------------------------- *)

\* C8: user.highestLevelAchieved never moves to a lower level and never
\* returns to unset; it changes only in a completion whose levelAchieved is
\* strictly higher than the stored value, and then to that level.
C8_LevelRatchet ==
  [][ \A u \in DOMAIN users :
        LET old == users[u].highestLevelAchieved
            new == users'[u].highestLevelAchieved
        IN /\ Rank(new) >= Rank(old)
           /\ new # old =>
                \E t \in TestIds :
                  /\ tests[t].userId = u
                  /\ InProgress(t) /\ tests'[t].status = "completed"
                  /\ tests'[t].levelAchieved = new
                  /\ Rank(new) > Rank(old) ]_vars

\* the completion just returned yielded A2 and the stored level is still B2
C8_Witness ==
  /\ result.op = "complete" /\ result.code = OK
  /\ result.testId \in TestIds
  /\ tests[result.testId].levelAchieved = "A2"
  /\ users[tests[result.testId].userId].highestLevelAchieved = "B2"

(* ----------------------------- C9 -------------------------------------- *)

\* C9: in every reachable state 0 <= currentQuestionIndex <= N - 1 for every
\* session with N questions.
C9_IndexInRange ==
  \A t \in TestIds :
    /\ tests[t].currentQuestionIndex >= 0
    /\ tests[t].currentQuestionIndex <= Len(tests[t].questionOrder) - 1
    /\ tests[t].totalQuestions = Len(tests[t].questionOrder)

\* an answer was just taken at the last of several questions
C9_Witness ==
  /\ result.op \in {"submit", "skip"} /\ result.code = OK
  /\ \E t \in TestIds :
       /\ InProgress(t)
       /\ tests[t].totalQuestions > 1
       /\ tests[t].currentQuestionIndex = tests[t].totalQuestions - 1
       /\ \A k \in 1..Len(responses[t]) : IsAnsweredOrSkipped(responses[t][k])

(* ----------------------------- C10 ------------------------------------- *)

\* C10 as stated: no operation takes an in_progress session from index i to
\* a smaller index.
C10_IndexNeverDecreases ==
  [][ \A t \in TestIds :
        InProgress(t) =>
          tests'[t].currentQuestionIndex >= tests[t].currentQuestionIndex ]_vars

\* C10 amended: start, submitAnswer, skipQuestion and navigate(next) never
\* lower currentQuestionIndex; only a successful navigate(previous) does, by
\* exactly 1.
C10_OnlyPreviousDecreases ==
  [][ \A t \in TestIds :
        (tests'[t].currentQuestionIndex < tests[t].currentQuestionIndex) =>
           /\ navigateQuestion(t, "previous")
           /\ result'.code = OK
           /\ tests'[t].currentQuestionIndex = tests[t].currentQuestionIndex - 1 ]_vars

\* navigate(previous) just moved a session back onto its resolved question 0
C10_Witness ==
  /\ result.op = "navigate" /\ result.code = OK
  /\ \E t \in TestIds :
       /\ InProgress(t)
       /\ tests[t].totalQuestions > 1
       /\ tests[t].currentQuestionIndex = 0
       /\ IsAnsweredOrSkipped(responses[t][1])
       /\ \A p \in TestIds \ {t} : ~InProgress(p)

(* ----------------------------- C11 ------------------------------------- *)

\* the three states of a response row
Answered(r) == r.selectedOptionIndex # Unset
Skipped(r) == r.isSkipped /\ r.selectedOptionIndex = Unset
Unanswered(r) == ~r.isSkipped /\ r.selectedOptionIndex = Unset

\* the response rows of session t, by position
Rows(t) == 1..Len(responses[t])

\* C11: a response leaves "unanswered" once, for exactly one of answered or
\* skipped, and never changes afterwards: a skipped response stays skipped,
\* an answered response stays answered with its answer, and neither returns
\* to unanswered.
C11_ResolvedOnce ==
  [][ \A t \in TestIds : \A k \in Rows(t) :
        /\ Skipped(responses[t][k]) => Skipped(responses'[t][k])
        /\ Answered(responses[t][k]) => responses'[t][k] = responses[t][k] ]_vars

(* ----------------------------- C12 ------------------------------------- *)

\* C12: submitAnswer for a question of an in_progress session whose response
\* is already answered returns 400 and leaves the answer, isCorrect, the
\* cursor and questionsAnswered (every test and response row) unchanged.
C12_AnsweredSubmitRejected ==
  [][ \A t \in TestIds, q \in DOMAIN questions, o \in SelectedOptions :
        ( /\ InProgress(t)
          /\ FindResponseByQuestion(t, q) # 0
          /\ Answered(responses[t][FindResponseByQuestion(t, q)])
          /\ submitAnswer(t, q, o) ) =>
           /\ result' = Response("submit", BAD_REQUEST, 0)
           /\ tests' = tests
           /\ responses' = responses ]_vars

\* a submit was just refused on a session in progress that holds an answer
C12_Witness ==
  /\ result = Response("submit", BAD_REQUEST, 0)
  /\ TestIds # {}
  /\ \A t \in TestIds : InProgress(t)
  /\ \E t \in TestIds : \E k \in Rows(t) :
        Answered(responses[t][k]) /\ responses[t][k].isCorrect = "true"

(* ----------------------------- C13 ------------------------------------- *)

\* the response row at the cursor of session t
CurrentResponse(t) == responses[t][tests[t].currentQuestionIndex + 1]

\* C13: skipQuestion on an in_progress session whose response at
\* currentQuestionIndex is already answered or skipped returns 400 and leaves
\* the response, currentQuestionIndex and questionsAnswered unchanged.
C13_ResolvedSkipRejected ==
  [][ \A t \in TestIds :
        ( /\ InProgress(t)
          /\ IsAnsweredOrSkipped(CurrentResponse(t))
          /\ skipQuestion(t) ) =>
           /\ result' = Response("skip", BAD_REQUEST, 0)
           /\ tests' = tests
           /\ responses' = responses ]_vars

\* a skip was just refused at an answered question
C13_Witness ==
  /\ result = Response("skip", BAD_REQUEST, 0)
  /\ TestIds # {}
  /\ \A t \in TestIds : InProgress(t) /\ Answered(CurrentResponse(t))

(* ----------------------------- C14 ------------------------------------- *)

\* C14: whenever currentQuestionIndex moves from i to i + 1, the response at
\* ordinal i is answered or skipped after the step.
C14_AdvanceOverResolved ==
  [][ \A t \in TestIds :
        tests'[t].currentQuestionIndex = tests[t].currentQuestionIndex + 1 =>
          IsAnsweredOrSkipped(responses'[t][tests[t].currentQuestionIndex + 1]) ]_vars

(* ----------------------------- C15 ------------------------------------- *)

\* the number of answered or skipped responses of session t
NumResolved(t) == Cardinality({k \in Rows(t) : IsAnsweredOrSkipped(responses[t][k])})

\* C15: questionsAnswered equals the number of the session's responses that
\* are answered or skipped.
C15_AnsweredCountsResolved ==
  \A t \in TestIds : tests[t].questionsAnswered = NumResolved(t)

(* ----------------------------- C16 ------------------------------------- *)

\* the certificates issued for session t, by position
CertificatesOf(t) == {c \in 1..Len(certificates) : certificates[c].testId = t}

\* C16: completeAssessment on a completed session returns 400 and changes no
\* test, user, certificate or response; a completed session keeps its score,
\* level, flags and completedAt for ever.
C16_CompletedOnce ==
  /\ [][ \A t \in TestIds :
           (Completed(t) /\ completeAssessment(t)) =>
              /\ result' = Response("complete", BAD_REQUEST, 0)
              /\ UNCHANGED db ]_vars
  /\ [][ \A t \in TestIds : Completed(t) => tests'[t] = tests[t] ]_vars

\* a second complete was just refused on a session that earned a certificate
C16_Witness ==
  /\ result = Response("complete", BAD_REQUEST, 0)
  /\ \E t \in TestIds :
       /\ Completed(t)
       /\ tests[t].levelAchieved # NoLevel
       /\ CertificatesOf(t) # {}
  /\ \A t \in TestIds : Completed(t)

(* ----------------------------- C17 ------------------------------------- *)

\* C17: a session has exactly one certificate if it is completed with a
\* level and none otherwise; the certificate carries the session's userId and
\* levelAchieved; certificates are only ever added, never modified.
C17_CertificatesMatchCompletions ==
  /\ [](\A t \in TestIds :
          /\ Cardinality(CertificatesOf(t)) =
                IF Completed(t) /\ tests[t].levelAchieved # NoLevel THEN 1 ELSE 0
          /\ \A c \in CertificatesOf(t) :
                /\ certificates[c].userId = tests[t].userId
                /\ certificates[c].levelAchieved = tests[t].levelAchieved)
  /\ [](\A c \in 1..Len(certificates) : certificates[c].testId \in TestIds)
  /\ [][ /\ Len(certificates') >= Len(certificates)
         /\ \A c \in 1..Len(certificates) : certificates'[c] = certificates[c] ]_vars

\* one session completed with a certificate, one completed without a level
\* and without a certificate, one still in progress
C17_Witness ==
  /\ \E t \in TestIds :
       Completed(t) /\ tests[t].levelAchieved # NoLevel
                    /\ Cardinality(CertificatesOf(t)) = 1
  /\ \E t \in TestIds :
       Completed(t) /\ tests[t].levelAchieved = NoLevel /\ CertificatesOf(t) = {}
  /\ \E t \in TestIds : InProgress(t) /\ CertificatesOf(t) = {}

(* ----------------------------- C18 ------------------------------------- *)

\* C18: under every interleaving of concurrent complete calls, and with a
\* failure at any point inside complete, no state shows a certificate of a
\* session that is not completed, a completed session with blocksRetake whose
\* user is not blocked, or a completed session with a level but without its
\* certificate; and a transaction commits only on a session that is still in
\* progress, so of two concurrent complete calls at most one commits.
C18_CompleteAtomic ==
  /\ [](\A c \in 1..Len(certificates) :
          /\ certificates[c].testId \in TestIds
          /\ Completed(certificates[c].testId))
  /\ [](\A t \in TestIds :
          (Completed(t) /\ tests[t].blocksRetake) => Blocked(tests[t].userId))
  /\ [](\A t \in TestIds :
          (Completed(t) /\ tests[t].levelAchieved # NoLevel) =>
             Cardinality(CertificatesOf(t)) = 1)
  /\ [][ \A w \in Workers :
           CompleteCommit(w) =>
             (InProgress(loc[w].testId) /\ CertificatesOf(loc[w].testId) = {}) ]_vars

\* one complete call has just committed with a certificate while another
\* complete call on the same session still has its transaction open
C18_Witness ==
  /\ result.op = "complete" /\ result.code = OK
  /\ result.testId \in TestIds
  /\ Completed(result.testId)
  /\ Cardinality(CertificatesOf(result.testId)) = 1
  /\ \E w \in Workers :
       pc[w] \in TransactionSteps /\ loc[w].testId = result.testId

(* ----------------------------- C19 ------------------------------------- *)

\* handler w found response row k of session t unresolved, passed the
\* "already answered (or skipped)" check and goes on to return success
WinsRow(w, t, k) ==
  /\ pc[w] \in {"submit_saveResponse", "submit_saveTest",
                "skip_saveResponse", "skip_saveTest"}
  /\ loc[w].testId = t
  /\ loc[w].k = k
  /\ pc[w] \in {"submit_saveResponse", "submit_saveTest"} =>
        ~IsAnsweredOrSkipped(loc[w].testResponse)

\* C19: of the submitAnswer and skipQuestion calls racing on one question of
\* one session at most one gets past the check of the response and succeeds.
C19_OneWinnerPerQuestion ==
  \A t \in TestIds : \A k \in Rows(t) :
    Cardinality({w \in Workers : WinsRow(w, t, k)}) <= 1

(* ----------------------------- C20 ------------------------------------- *)

\* C20: getCurrentQuestion, submitAnswer, skipQuestion and navigateQuestion
\* on a session that is not in_progress return 400 and leave the session and
\* all its responses (every collection) unchanged.
C20_RequiresInProgress ==
  [][ \A t \in TestIds :
        ~InProgress(t) =>
          /\ getCurrentQuestion(t) =>
                (result' = Response("current", BAD_REQUEST, 0) /\ UNCHANGED db)
          /\ \A q \in DOMAIN questions, o \in SelectedOptions :
                submitAnswer(t, q, o) =>
                  (result' = Response("submit", BAD_REQUEST, 0) /\ UNCHANGED db)
          /\ skipQuestion(t) =>
                (result' = Response("skip", BAD_REQUEST, 0) /\ UNCHANGED db)
          /\ \A d \in Directions :
                navigateQuestion(t, d) =>
                  (result' = Response("navigate", BAD_REQUEST, 0) /\ UNCHANGED db) ]_vars

\* getCurrentQuestion was just refused on a completed session that still has
\* an unresolved question
C20_Witness ==
  /\ result = Response("current", BAD_REQUEST, 0)
  /\ \E t \in TestIds :
       /\ Completed(t)
       /\ tests[t].totalQuestions > 1
       /\ \E k \in Rows(t) : Unanswered(responses[t][k])

(* ----------------------------- C25 ------------------------------------- *)

\* C25: a successful submitAnswer or skipQuestion on a session at index i
\* moves currentQuestionIndex to i + 1 when i < N - 1 and leaves it at N - 1
\* when i = N - 1, the session staying in_progress; and in every state
\* currentQuestionId = questionOrder[currentQuestionIndex].
C25_AutoAdvance ==
  /\ [](\A t \in TestIds :
          tests[t].currentQuestionId =
            ElementAt(tests[t].questionOrder, tests[t].currentQuestionIndex))
  /\ [][ \A t \in TestIds :
           ( /\ \/ \E q \in DOMAIN questions, o \in SelectedOptions :
                     submitAnswer(t, q, o)
                \/ skipQuestion(t)
             /\ result'.code = OK ) =>
              /\ tests'[t].currentQuestionIndex =
                    IF tests[t].currentQuestionIndex < tests[t].totalQuestions - 1
                    THEN tests[t].currentQuestionIndex + 1
                    ELSE tests[t].totalQuestions - 1
              /\ tests'[t].status = "in_progress" ]_vars

\* a skip just moved the cursor of a three-question session from 1 to 2
C25_Witness ==
  /\ result = Response("skip", OK, 0)
  /\ \E t \in TestIds :
       /\ InProgress(t)
       /\ tests[t].totalQuestions = 3
       /\ tests[t].currentQuestionIndex = 2
       /\ tests[t].currentQuestionId = tests[t].questionOrder[3]
       /\ Skipped(responses[t][2])
       /\ Unanswered(responses[t][3])

(* ----------------------------- C26 ------------------------------------- *)

\* C26: a successful submitAnswer(testId, questionId, ...) occurs only when
\* questionId = questionOrder[currentQuestionIndex].
C26_SubmitOnlyCurrent ==
  [][ \A t \in TestIds, q \in DOMAIN questions, o \in SelectedOptions :
        (submitAnswer(t, q, o) /\ result'.code = OK) =>
           q = ElementAt(tests[t].questionOrder, tests[t].currentQuestionIndex) ]_vars

(* ----------------------------- C27 ------------------------------------- *)

C28_NextGuard ==
  [][ \A t \in TestIds :
        (InProgress(t) /\ navigateQuestion(t, "next")) =>
           IF \/ ~IsAnsweredOrSkipped(CurrentResponse(t))
              \/ tests[t].currentQuestionIndex = tests[t].totalQuestions - 1
           THEN /\ result' = Response("navigate", BAD_REQUEST, 0)
                /\ UNCHANGED db
           ELSE /\ result' = Response("navigate", OK, 0)
                /\ tests'[t].currentQuestionIndex = tests[t].currentQuestionIndex + 1
                /\ tests'[t].questionsAnswered = tests[t].questionsAnswered
                /\ tests'[t].status = "in_progress"
                /\ UNCHANGED <<users, questions, responses, certificates>> ]_vars

\* navigate(next) just moved from a resolved question 0 to a resolved
\* question 1 of three
C28_Witness ==
  /\ result = Response("navigate", OK, 0)
  /\ \E t \in TestIds :
       /\ InProgress(t)
       /\ tests[t].totalQuestions = 3
       /\ tests[t].currentQuestionIndex = 1
       /\ IsAnsweredOrSkipped(responses[t][1])
       /\ IsAnsweredOrSkipped(responses[t][2])
       /\ Unanswered(responses[t][3])

(* ----------------------------- C29 ------------------------------------- *)

\* C29: the navigation flags getCurrentQuestion returns agree with the
\* guards of the operations in the same state: canSkip iff skipQuestion
\* would succeed (the current response is neither answered nor skipped),
\* canGoNext iff navigate(next) would succeed (resolved and index < N - 1),
\* canGoPrevious iff navigate(previous) would succeed (index > 0).
C29_FlagsAgreeWithGuards ==
  [][ \A t \in TestIds :
        (getCurrentQuestion(t) /\ result'.code = OK) =>
           /\ result'.navigation.canSkip = (skipQuestionCode(t) = OK)
           /\ result'.navigation.canSkip = ~IsAnsweredOrSkipped(CurrentResponse(t))
           /\ result'.navigation.canGoNext = (navigateQuestionCode(t, "next") = OK)
           /\ result'.navigation.canGoNext =
                 ( /\ IsAnsweredOrSkipped(CurrentResponse(t))
                   /\ tests[t].currentQuestionIndex < tests[t].totalQuestions - 1 )
           /\ result'.navigation.canGoPrevious =
                 (navigateQuestionCode(t, "previous") = OK)
           /\ result'.navigation.canGoPrevious = (tests[t].currentQuestionIndex > 0) ]_vars

\* getCurrentQuestion just answered at a resolved last question
C29_Witness ==
  /\ result.op = "current" /\ result.code = OK
  /\ ~result.navigation.canGoNext
  /\ ~result.navigation.canSkip
  /\ result.navigation.canGoPrevious
  /\ \E t \in TestIds :
       /\ InProgress(t)
       /\ tests[t].currentQuestionIndex = tests[t].totalQuestions - 1
       /\ IsAnsweredOrSkipped(CurrentResponse(t))

(* ----------------------------- C30 ------------------------------------- *)

\* C30: completeAssessment succeeds on a session only if its
\* questionsAnswered > 0, that is only when canSubmitTest holds.
C30_CompleteNeedsAnswer ==
  [][ \A t \in TestIds :
        (completeAssessment(t) /\ result'.code = OK) =>
           (tests[t].questionsAnswered > 0 /\ Navigation(t).canSubmitTest) ]_vars

(* ----------------------------- C23 ------------------------------------- *)

\* the active questions of the step's two levels
ActivePool(s) ==
  {q \in DOMAIN questions :
     /\ questions[q].isActive
     /\ questions[q].level \in (CASE s = 1 -> {"A1", "A2"}
                                  [] s = 2 -> {"B1", "B2"}
                                  [] s = 3 -> {"C1", "C2"})}

Verdict(o, correctOptionIndex) ==
  AnsweredResponse([selectedOptionIndex |-> Unset, isCorrect |-> "undefined",
                    isSkipped |-> FALSE], o, correctOptionIndex).isCorrect

\* C24: through every step, each question of a session in progress keeps the
\* verdict submitAnswer gives for every option (so an answer is judged as at
\* the creation of the session), and the session keeps its questionOrder and
\* its N.
C24_QuestionFrozenInSession ==
  [][ \A t \in TestIds :
        InProgress(t) =>
          /\ tests'[t].questionOrder = tests[t].questionOrder
          /\ tests'[t].totalQuestions = tests[t].totalQuestions
          /\ \A q \in SeqRange(tests[t].questionOrder), o \in SelectedOptions :
                Verdict(o, questions'[q].correctOptionIndex)
                  = Verdict(o, questions[q].correctOptionIndex) ]_vars

(* C22: an eligible student with no level starts step 1 over 44 questions,
   answers all 44 with 38 correct and completes: the session is completed
   with score 86, level A2, canProceedToNextStep true and blocksRetake false,
   it has exactly one certificate, the user's highestLevelAchieved is A2,
   and a start for step 2 after that succeeds with a step-2 session. *)
ScenarioPassed(t) ==
  /\ Completed(t)
  /\ tests[t].step = 1
  /\ tests[t].totalQuestions = 44
  /\ tests[t].correctAnswers = 38

C22_PassScenario ==
  /\ [][ \A t \in TestIds :
          ( /\ InProgress(t)
            /\ tests[t].step = 1
            /\ tests[t].totalQuestions = 44
            /\ ~Blocked(tests[t].userId)
            /\ users[tests[t].userId].highestLevelAchieved = NoLevel
            /\ \A k \in Rows(t) : Answered(responses[t][k])
            /\ NumCorrect(responses[t]) = 38
            /\ completeAssessment(t) ) =>
             /\ result' = Response("complete", OK, t)
             /\ tests'[t].status = "completed"
             /\ tests'[t].score = 86
             /\ tests'[t].levelAchieved = "A2"
             /\ tests'[t].canProceedToNextStep
             /\ ~tests'[t].blocksRetake
             /\ Cardinality(CertificatesOf(t)') = 1
             /\ users'[tests[t].userId].highestLevelAchieved = "A2" ]_vars
  /\ [][ \A t \in TestIds :
          (ScenarioPassed(t) /\ startAssessment(tests[t].userId, 2)) =>
             /\ result'.code = OK
             /\ result'.testId \in DOMAIN tests'
             /\ tests'[result'.testId].userId = tests[t].userId
             /\ tests'[result'.testId].step = 2
             /\ tests'[result'.testId].status = "in_progress" ]_vars

\* the scenario ran: session 1 passed with 86 and the start of step 2 created
\* session 2
C22_Witness ==
  /\ Len(tests) = 2
  /\ ScenarioPassed(1)
  /\ tests[1].score = 86
  /\ tests[1].questionsAnswered = 44
  /\ Cardinality(CertificatesOf(1)) = 1
  /\ users[tests[1].userId].highestLevelAchieved = "A2"
  /\ tests[2].step = 2
  /\ result = Response("start", OK, 2)

(* C21: the certificate email is fire-and-forget and sent at most once.  A
   session never has more than one email; an email exists only for a
   session whose completion has committed with a certificate (none for an
   aborted or rejected complete, none for a completion without a
   certificate); the send, whether it succeeds or fails, changes no test,
   user, certificate or response and not the returned result; an email that
   was sent or has failed is never attempted again. *)
EmailsOf(t) == {m \in DOMAIN mail : mail[m].testId = t}

C21_EmailAtMostOnce ==
  /\ [](\A t \in TestIds : Cardinality(EmailsOf(t)) <= 1)
  /\ [](\A m \in DOMAIN mail :
          /\ mail[m].testId \in TestIds
          /\ Completed(mail[m].testId)
          /\ CertificatesOf(mail[m].testId) # {})
  /\ [][ /\ Len(mail') >= Len(mail)
         /\ \A m \in DOMAIN mail :
              /\ mail'[m].testId = mail[m].testId
              /\ mail[m].status # "scheduled" => mail'[m] = mail[m]
              /\ mail'[m] # mail[m] => UNCHANGED <<db, result>>
         /\ Len(mail') > Len(mail) =>
              /\ Len(mail') = Len(mail) + 1
              /\ result' = Response("complete", OK, mail'[Len(mail')].testId)
              /\ ~Completed(mail'[Len(mail')].testId)
              /\ mail'[Len(mail')].status = "scheduled" ]_vars

\* the email of the completed session has failed, and complete's result stands
C21_Witness ==
  \E m \in DOMAIN mail :
    /\ mail[m].status = "failed"
    /\ Completed(mail[m].testId)
    /\ CertificatesOf(mail[m].testId) # {}
    /\ result = Response("complete", OK, mail[m].testId)

(* C31: every session that is in the collection owns exactly one response
   row per question of its questionOrder, at the ordinal of the question's
   position, with no two rows for one question; totalQuestions, the length
   of questionOrder and the number of rows agree, and timeLimit is 60
   seconds a question.  This is to hold between the awaited steps of
   startAssessment as well. *)
C31_SessionOwnsRows ==
  \A t \in TestIds :
    /\ tests[t].totalQuestions = Len(tests[t].questionOrder)
    /\ tests[t].timeLimit = tests[t].totalQuestions * 60
    /\ Len(responses[t]) = tests[t].totalQuestions
    /\ \A k \in Rows(t) :
         /\ responses[t][k].questionId = tests[t].questionOrder[k]
         /\ responses[t][k].questionOrder = k - 1
    /\ \A j, k \in Rows(t) :
         responses[t][j].questionId = responses[t][k].questionId => j = k

(* C32: a session is in_progress or completed and nothing else, also after
   a step-1 result below 25; its status changes only from in_progress to
   completed, in a successful completeAssessment on it; a completed session
   keeps its status, score, level and completedAt; score, levelAchieved and
   completedAt are unset while the session is in progress, and score and
   completedAt are set once it is completed. *)
C32_StatusMachine ==
  /\ [](\A t \in TestIds :
          /\ tests[t].status \in {"in_progress", "completed"}
          /\ InProgress(t) => /\ tests[t].score = Unset
                              /\ tests[t].levelAchieved = NoLevel
                              /\ tests[t].completedAt = FALSE
          /\ Completed(t) => /\ tests[t].score # Unset
                             /\ tests[t].completedAt = TRUE)
  /\ [][ \A t \in TestIds :
          /\ tests'[t].status # tests[t].status =>
                /\ InProgress(t)
                /\ tests'[t].status = "completed"
                /\ result' = Response("complete", OK, t)
          /\ Completed(t) =>
                /\ tests'[t].status = "completed"
                /\ tests'[t].score = tests[t].score
                /\ tests'[t].levelAchieved = tests[t].levelAchieved
                /\ tests'[t].completedAt = tests[t].completedAt ]_vars

\* a step-1 session was completed below 25: it is completed, and it blocks
C32_Witness ==
  \E t \in TestIds :
    /\ tests[t].step = 1
    /\ Completed(t)
    /\ tests[t].score < 25
    /\ tests[t].blocksRetake
    /\ tests[t].levelAchieved = NoLevel
    /\ Blocked(tests[t].userId)

(* C33: sessions do not expire.  The passing of time alone changes no
   record and no result; a session whose elapsed time is over its timeLimit
   stays in_progress until a successful completeAssessment, and on it
   submitAnswer on an unanswered question, skipQuestion on an unresolved
   current question, navigateQuestion within the range and
   completeAssessment all succeed; getCurrentQuestion reports
   timeRemaining = max(0, timeLimit - elapsed), which is 0 for it. *)
Elapsed(t) == now - tests[t].startedAt

Expired(t) == Elapsed(t) > tests[t].timeLimit

C33_NoExpiry ==
  /\ [][ now' # now => UNCHANGED <<db, result>> ]_vars
  /\ [][ \A t \in TestIds : (InProgress(t) /\ getCurrentQuestion(t)) =>
            /\ result'.code = OK
            /\ Elapsed(t) >= tests[t].timeLimit =>
                  result'.testProgress.timeRemaining = 0
            /\ Elapsed(t) < tests[t].timeLimit =>
                  result'.testProgress.timeRemaining = tests[t].timeLimit - Elapsed(t)
        ]_vars
  /\ [][ \A t \in TestIds : (InProgress(t) /\ Expired(t)) =>
            /\ tests'[t].status # "in_progress" =>
                  result' = Response("complete", OK, t)
            /\ \A k \in Rows(t), o \in SelectedOptions :
                  ( /\ Unanswered(responses[t][k])
                    /\ submitAnswer(t, responses[t][k].questionId, o) ) =>
                       result'.code = OK
            /\ (Unanswered(CurrentResponse(t)) /\ skipQuestion(t)) =>
                  result'.code = OK
            /\ ( /\ tests[t].currentQuestionIndex > 0
                 /\ navigateQuestion(t, "previous") ) => result'.code = OK
            /\ ( /\ tests[t].currentQuestionIndex < tests[t].totalQuestions - 1
                 /\ ~Unanswered(CurrentResponse(t))
                 /\ navigateQuestion(t, "next") ) => result'.code = OK
            /\ completeAssessment(t) => result' = Response("complete", OK, t)
        ]_vars

\* a session over its time with every question answered is still in
\* progress, and getCurrentQuestion has reported timeRemaining 0 for it
C33_Witness ==
  /\ InProgress(1)
  /\ Expired(1)
  /\ tests[1].questionsAnswered = tests[1].totalQuestions
  /\ tests[1].totalQuestions > 1
  /\ result.op = "current"
  /\ result.code = OK
  /\ result.testProgress.timeRemaining = 0

(* C34: an answer and its count are one unit.  In every state, under
   concurrent handlers as well, a session's questionsAnswered is the number
   of its response rows that hold an answer: no row is answered without
   its increment, and no increment is lost. *)
C34_AnswerAtomic ==
  \A t \in TestIds :
    tests[t].questionsAnswered =
      Cardinality({k \in Rows(t) : Answered(responses[t][k])})

(* C35: a completed session is frozen.  In every state, under a submitAnswer
   or skipQuestion that runs next to completeAssessment as well, the stored
   correctAnswers of a completed session is the number of its rows with
   isCorrect = true and its score is that number as a rounded percentage of
   N. *)
C35_CompletedFrozen ==
  \A t \in TestIds :
    Completed(t) =>
      /\ tests[t].correctAnswers = NumCorrect(responses[t])
      /\ IsRoundedPercent(tests[t].score, NumCorrect(responses[t]),
                          tests[t].totalQuestions)

(* C36: only the owner acts on a session.  A step taken while the request
   is authenticated as another student than the session's userId changes
   neither the session nor its response rows, and a getCurrentQuestion,
   submitAnswer, skipQuestion, navigateQuestion or completeAssessment on the
   session is rejected then. *)
C36_OwnerOnly ==
  [][ \A t \in TestIds :
        reqUser # tests[t].userId =>
          /\ tests'[t] = tests[t]
          /\ responses'[t] = responses[t]
          /\ (getCurrentQuestion(t) \/ completeAssessment(t)) => result'.code # OK
    ]_vars

(* C37: a blocked user is awarded nothing more.  From a state in which the
   user is blocked, no step adds a certificate for that user or changes the
   user's highestLevelAchieved, whatever sessions the user still has in
   progress. *)
CertificatesOfUser(u) == {c \in 1..Len(certificates) : certificates[c].userId = u}

C37_BlockedGetsNothing ==
  [][ \A u \in DOMAIN users :
        Blocked(u) =>
          /\ CertificatesOfUser(u)' = CertificatesOfUser(u)
          /\ users'[u].highestLevelAchieved = users[u].highestLevelAchieved
    ]_vars

(* C38: a session never counts more answers than it has questions:
   0 <= questionsAnswered <= totalQuestions in every state, and the
   progressPercentage getCurrentQuestion reports is questionsAnswered as a
   rounded percentage of totalQuestions, within 0..100. *)
C38_AnsweredWithinTotal ==
  /\ [](\A t \in TestIds :
          /\ tests[t].questionsAnswered >= 0
          /\ tests[t].questionsAnswered <= tests[t].totalQuestions)
  /\ [][ \A t \in TestIds : (InProgress(t) /\ getCurrentQuestion(t)) =>
            /\ result'.testProgress.progressPercentage \in 0..100
            /\ IsRoundedPercent(result'.testProgress.progressPercentage,
                                tests[t].questionsAnswered,
                                tests[t].totalQuestions) ]_vars

\* every question of the longest session is answered and
\* getCurrentQuestion has reported 100 per cent
C38_Witness ==
  /\ InProgress(1)
  /\ tests[1].totalQuestions = MaxQuestions
  /\ tests[1].questionsAnswered = tests[1].totalQuestions
  /\ result.op = "current"
  /\ result.code = OK
  /\ result.testProgress.progressPercentage = 100

(* C39: in every state a user's highestLevelAchieved is at least as high,
   in A1 < A2 < B1 < B2 < C1 < C2, as the levelAchieved of each of the
   user's certificates and of each of the user's completed sessions, and it
   is unset exactly when the user has no completed session with a level. *)
C39_HighestCoversAll ==
  \A u \in DOMAIN users :
    /\ \A c \in CertificatesOfUser(u) :
         Rank(users[u].highestLevelAchieved) >= Rank(certificates[c].levelAchieved)
    /\ \A t \in TestIds :
         (tests[t].userId = u /\ Completed(t)) =>
            Rank(users[u].highestLevelAchieved) >= Rank(tests[t].levelAchieved)
    /\ users[u].highestLevelAchieved = NoLevel <=>
         ~\E t \in TestIds : /\ tests[t].userId = u
                             /\ Completed(t)
                             /\ tests[t].levelAchieved # NoLevel

\* a user holds certificates of two levels, and the stored level is the
\* higher one, earned before the lower one
C39_Witness ==
  \E u \in DOMAIN users :
    \E c, d \in CertificatesOfUser(u) :
      /\ c < d
      /\ Rank(certificates[c].levelAchieved) > Rank(certificates[d].levelAchieved)
      /\ users[u].highestLevelAchieved = certificates[c].levelAchieved
      /\ Completed(certificates[d].testId)

(* C40: every call ends with an envelope.  A call that fails returns
   success = false with statusCode 400, 403, 404, 409 or 500, a call that
   succeeds returns success = true with 200; getCurrentQuestion,
   submitAnswer, skipQuestion, navigateQuestion and completeAssessment with
   an id that no session has fail and change no record. *)
ErrorCodes == {BAD_REQUEST, FORBIDDEN, NOT_FOUND, CONFLICT, INTERNAL_SERVER_ERROR}

C40_ErrorEnvelope ==
  /\ [](result.op # "none" =>
          \/ result.success /\ result.code = OK
          \/ ~result.success /\ result.code \in ErrorCodes)
  /\ [][ \A t \in 1..(Len(tests) + 1) :
          ( /\ t \notin TestIds
            /\ \/ getCurrentQuestion(t)
               \/ \E q \in DOMAIN questions, o \in SelectedOptions :
                     submitAnswer(t, q, o)
               \/ skipQuestion(t)
               \/ \E d \in Directions : navigateQuestion(t, d)
               \/ completeAssessment(t) ) =>
             /\ ~result'.success
             /\ result'.code \in {BAD_REQUEST, NOT_FOUND}
             /\ UNCHANGED db ]_vars

\* completeAssessment with an id of no session has just failed with 404,
\* next to a session in progress
C40_Witness ==
  /\ result = ErrorEnvelope("complete", NOT_FOUND)
  /\ \E t \in TestIds : InProgress(t) /\ tests[t].questionsAnswered > 0
  /\ certificates = <<>>

====
